---- MODULE Spec2Model ----
(***************************************************************************)
(* A model of the recursive version control system (rvcs): the snapshot    *)
(* records and their encodings, the content-addressed local store, the     *)
(* snapshot engine (snapshot.Current), checkout, merge and merge base.     *)
(*                                                                         *)
(* Byte strings are modelled as sequences of lines; a line is a record     *)
(* [w, h] holding the words of the line that are plain text (w) and the    *)
(* hash the line ends with (h, NilHash when it has none).  sha256 is       *)
(* modelled as an injective function: a hash is the record                 *)
(* [function |-> "sha256", sum |-> <the bytes hashed>].                    *)
(***************************************************************************)
EXTENDS Integers, Sequences, FiniteSets, TLC

(***************************************************************************)
(* Bounds of the model.                                                    *)
(***************************************************************************)
MaxTime == 1
MaxNonce == 1
MaxSnapshots == 3
MaxTreeSnapshots == 4
MaxMergeSnapshots == 4
MaxNodes == 4

(***************************************************************************)
(* Program constants.                                                      *)
(***************************************************************************)
LargeObjectThreshold == 1048576
BigFileSize == 2097152

Times == 0..MaxTime
Nonces == 0..MaxNonce

\* Let([x \in {v} |-> e]) is the value of e with x standing for v: the
\* result of a call is computed once and used by name in what follows.
Let(f) == f[CHOOSE x \in DOMAIN f : TRUE]

(***************************************************************************)
(* snapshot.Hash                                                           *)
(***************************************************************************)
NilHash == [function |-> "", sum |-> <<>>]

NewHash(bytes) == [function |-> "sha256", sum |-> bytes]

HashEqual(h, other) ==
    IF h = NilHash \/ other = NilHash
    THEN h = NilHash /\ other = NilHash
    ELSE h.function = other.function /\ h.sum = other.sum

\* One line of text: the words w followed by the text of the hash h.
Line(w, h) == [w |-> w, h |-> h]

\* The bytes of a plain file (or of a link target) holding the text d.
Bytes(d) == IF d = "" THEN <<>> ELSE <<Line(d, NilHash)>>

\* The text of a plain file's bytes (the inverse of Bytes).
Text(bytes) == IF bytes = <<>> THEN "" ELSE bytes[1].w

\* The length in bytes: only the big file is longer than a mebibyte.
ByteLen(bytes) == IF bytes = Bytes("BIG") THEN BigFileSize ELSE Len(bytes)

(***************************************************************************)
(* snapshot.Path and snapshot.Tree                                         *)
(***************************************************************************)
Names == {"c", "e", "g"}
\* The names in the order of their encoded lines (sort.Strings).
SortedNames == <<"c", "e", "g">>

Join(p, child) == Append(p, child)

encode(name) == "b64." \o name

NoName == ""
decodePath(encoded) ==
    IF \E n \in Names : encode(n) = encoded
    THEN CHOOSE n \in Names : encode(n) = encoded
    ELSE NoName

EmptyTree == [n \in {} |-> NilHash]

RECURSIVE TreeLines(_, _)
TreeLines(t, i) ==
    IF i > Len(SortedNames) THEN <<>>
    ELSE LET n == SortedNames[i]
         IN  IF n \in DOMAIN t /\ t[n] # NilHash
             THEN <<Line(encode(n), t[n])>> \o TreeLines(t, i + 1)
             ELSE TreeLines(t, i + 1)

TreeString(t) == TreeLines(t, 1)

\* ParseTree: [ok, tree]
ParseTree(encoded) ==
    IF \A i \in 1..Len(encoded) : decodePath(encoded[i].w) # NoName
    THEN [ok |-> TRUE,
          tree |-> [n \in {decodePath(encoded[i].w) : i \in 1..Len(encoded)} |->
                      LET i == CHOOSE j \in 1..Len(encoded) :
                                 /\ decodePath(encoded[j].w) = n
                                 /\ \A k \in (j+1)..Len(encoded) : decodePath(encoded[k].w) # n
                      IN  encoded[i].h]]
    ELSE [ok |-> FALSE, tree |-> EmptyTree]

(***************************************************************************)
(* snapshot.File                                                           *)
(***************************************************************************)
NilFile == [Mode |-> "", Contents |-> NilHash, Parents |-> <<>>]

Perms == {"rwx------", "rwxrwxrwx"}

DirMode(perm) == "d" \o perm
LinkMode(perm) == "L" \o perm
RegMode(perm) == "-" \o perm

IsDir(f) == f # NilFile /\ \E p \in Perms : f.Mode = DirMode(p)

IsLink(f) == f # NilFile /\ \E p \in Perms : f.Mode = LinkMode(p)

\* File.Permissions: the last nine characters of the mode line.
Permissions(f) ==
    IF f = NilFile \/ ~ \E p \in Perms : f.Mode \in {DirMode(p), LinkMode(p), RegMode(p)}
    THEN "rwx------"
    ELSE CHOOSE p \in Perms : f.Mode \in {DirMode(p), LinkMode(p), RegMode(p)}

RECURSIVE ParentLines(_)
ParentLines(parents) ==
    IF parents = <<>> THEN <<>>
    ELSE IF Head(parents) # NilHash
         THEN <<Line("", Head(parents))>> \o ParentLines(Tail(parents))
         ELSE ParentLines(Tail(parents))

FileString(f) ==
    IF f = NilFile THEN <<>>
    ELSE <<Line(f.Mode, NilHash), Line("", f.Contents)>> \o ParentLines(f.Parents)

RECURSIVE NonNilHashes(_)
NonNilHashes(lines) ==
    IF lines = <<>> THEN <<>>
    ELSE IF Head(lines).h # NilHash
         THEN <<Head(lines).h>> \o NonNilHashes(Tail(lines))
         ELSE NonNilHashes(Tail(lines))

\* ParseFile: [ok, file]
ParseFile(encoded) ==
    IF Len(encoded) = 0 THEN [ok |-> TRUE, file |-> NilFile]
    ELSE IF Len(encoded) < 2 THEN [ok |-> FALSE, file |-> NilFile]
    ELSE IF encoded[1].h # NilHash THEN [ok |-> FALSE, file |-> NilFile]
    ELSE IF \E i \in 2..Len(encoded) : encoded[i].w # "" THEN [ok |-> FALSE, file |-> NilFile]
    ELSE IF encoded[2].h = NilHash THEN [ok |-> FALSE, file |-> NilFile]
    ELSE LET hashes == NonNilHashes(Tail(encoded))
         IN  [ok |-> TRUE,
              file |-> [Mode |-> encoded[1].w,
                        Contents |-> hashes[1],
                        Parents |-> Tail(hashes)]]

(***************************************************************************)
(* The paths of the model: a working directory w, two directories under    *)
(* it and one entry in each; the archive lives beside it unless a store    *)
(* names a directory under w as its archive directory.                     *)
(***************************************************************************)
AllPaths == {<<"w">>, <<"w", "c">>, <<"w", "e">>, <<"w", "c", "g">>, <<"w", "e", "g">>}
ArchiveDir == <<"archive">>

IsPrefix(p, q) == Len(p) <= Len(q) /\ SubSeq(q, 1, Len(p)) = p
Dir(p) == SubSeq(p, 1, Len(p) - 1)
BaseName(p) == p[Len(p)]
\* The entries directly under p, within the paths of the model.
ChildNames(S, p) == {BaseName(q) : q \in {r \in S : Len(r) = Len(p) + 1 /\ IsPrefix(p, r)}}

RECURSIVE SortedSeq(_, _)
\* The names of the set S in the order of SortedNames (os.ReadDir sorts by name).
SortedSeq(S, i) ==
    IF i > Len(SortedNames) THEN <<>>
    ELSE IF SortedNames[i] \in S THEN <<SortedNames[i]>> \o SortedSeq(S, i + 1)
    ELSE SortedSeq(S, i + 1)

\* The identities that sign snapshots.
Identities == {"ida"}

\* The file of an identity below the archive directory: absent, or holding
\* the text of a hash.
NoIdentityFile == [exists |-> FALSE, h |-> NilHash]

(***************************************************************************)
(* storage.LocalFiles: the archive directory.                              *)
(*   objects        the files under objects/: [name, bytes]                *)
(*   largeObjects   the files under largeObjects/: [name (.age), age]      *)
(*   paths          the mapping files under paths/ (NilHash: no file)      *)
(*   mappedPaths    the directories under mappedPaths/                     *)
(*   cache          the files under cache/ (NoCache: no file)              *)
(*   identities     the files under identities/, one per identity          *)
(*   blocked        the names of the object files whose storage location   *)
(*                  cannot be written (its directory cannot be created,    *)
(*                  or the rename onto it fails)                           *)
(*   ArchiveDir     the path of the archive directory                      *)
(***************************************************************************)
NoCache == [Size |-> 0 - 1, Mode |-> "", ModTime |-> 0 - 1]

EmptyStore ==
    [objects |-> {}, largeObjects |-> {},
     paths |-> [p \in AllPaths |-> NilHash],
     mappedPaths |-> {},
     cache |-> [p \in AllPaths |-> NoCache],
     identities |-> [i \in Identities |-> NoIdentityFile],
     blocked |-> {},
     ArchiveDir |-> ArchiveDir]

\* A faulty variant of Exclude: no path is excluded.
ExcludeNothing(st, p) == FALSE

Exclude(st, p) == p = st.ArchiveDir

\* age encryption to the archive's recipient, with the randomness it draws.
Encrypt(bytes, nonce) == [plain |-> bytes, nonce |-> nonce]
Decrypt(age) == age.plain

\* A faulty variant of objectName: the file name ignores the hash.
objectNameFlat(h, encrypted) == [hash |-> NilHash, age |-> encrypted]

\* objectName: the file an object is kept in, under its sub directory.
objectName(h, encrypted) == [hash |-> h, age |-> encrypted]

\* StoreObject: [h, st]
StoreObject(st, size, bytes, nonce) ==
    LET encrypted == size > LargeObjectThreshold
        h == NewHash(bytes)
        name == objectName(h, encrypted)
    IN  IF name \in st.blocked THEN [err |-> "store", h |-> NilHash, st |-> st]
        ELSE IF encrypted
        THEN [err |-> "", h |-> h,
              st |-> [st EXCEPT !.largeObjects =
                        {o \in @ : o.name # name} \cup
                        {[name |-> name, age |-> Encrypt(bytes, nonce)]}]]
        ELSE [err |-> "", h |-> h,
              st |-> [st EXCEPT !.objects =
                        {o \in @ : o.name # name} \cup {[name |-> name, bytes |-> bytes]}]]

\* ReadObject: [err, bytes]; err is "" on success
ReadObject(st, h) ==
    IF h = NilHash THEN [err |-> "nil", bytes |-> <<>>]
    ELSE IF \E o \in st.objects : o.name = objectName(h, FALSE)
    THEN [err |-> "",
          bytes |-> (CHOOSE o \in st.objects : o.name = objectName(h, FALSE)).bytes]
    ELSE IF \E o \in st.largeObjects : o.name = objectName(h, TRUE)
    THEN [err |-> "",
          bytes |-> Decrypt((CHOOSE o \in st.largeObjects : o.name = objectName(h, TRUE)).age)]
    ELSE [err |-> "notexist", bytes |-> <<>>]

\* ReadSnapshot: [err, f]
ReadSnapshot(st, h) ==
    LET r == ReadObject(st, h)
    IN  IF r.err # "" THEN [err |-> "read", f |-> NilFile]
        ELSE LET pf == ParseFile(r.bytes)
             IN  IF pf.ok THEN [err |-> "", f |-> pf.file]
                 ELSE [err |-> "parse", f |-> NilFile]

\* FindSnapshot: [err, h, f]; err "notexist" when the path has no mapping file
FindSnapshot(st, p) ==
    IF st.paths[p] = NilHash THEN [err |-> "notexist", h |-> NilHash, f |-> NilFile]
    ELSE Let([r \in {ReadSnapshot(st, st.paths[p])} |->
           IF r.err # "" THEN [err |-> "read", h |-> NilHash, f |-> NilFile]
           ELSE [err |-> "", h |-> st.paths[p], f |-> r.f]])

\* ListDirectorySnapshotContents: [err, tree]
ListDirectorySnapshotContents(st, h, f) ==
    IF ~IsDir(f) THEN [err |-> "notdir", tree |-> EmptyTree]
    ELSE LET r == ReadObject(st, f.Contents)
         IN  IF r.err # "" THEN [err |-> "read", tree |-> EmptyTree]
             ELSE LET pt == ParseTree(r.bytes)
                  IN  IF pt.ok THEN [err |-> "", tree |-> pt.tree]
                      ELSE [err |-> "parse", tree |-> EmptyTree]

\* A faulty variant of RemoveMappingForPath: the mappings of all paths go.
RemoveEveryMapping(st, p) ==
    [err |-> "",
     st |-> [st EXCEPT !.mappedPaths = {}, !.paths = [q \in AllPaths |-> NilHash]]]

RECURSIVE RemoveMappingForPath(_, _)
RECURSIVE RemoveMappingForChildren(_, _, _)
\* RemoveMappingForPath: [err, st]
RemoveMappingForPath(st, p) ==
    LET st1 == [st EXCEPT !.mappedPaths = {q \in @ : ~IsPrefix(p, q)}]
        st2 == [st1 EXCEPT !.paths[p] = NilHash]
    IN  Let([found \in {FindSnapshot(st1, p)} |->
          IF found.err = "notexist" THEN [err |-> "", st |-> st1]
          ELSE IF ~IsDir(found.f) THEN [err |-> "", st |-> st2]
          ELSE Let([l \in {ListDirectorySnapshotContents(st2, found.h, found.f)} |->
                 IF l.err # "" THEN [err |-> "list", st |-> st2]
                 ELSE RemoveMappingForChildren(st2, p, SortedSeq(DOMAIN l.tree, 1))])])

RemoveMappingForChildren(st, p, children) ==
    IF children = <<>> THEN [err |-> "", st |-> st]
    ELSE IF Join(p, Head(children)) \notin AllPaths
    THEN RemoveMappingForChildren(st, p, Tail(children))
    ELSE Let([r \in {RemoveMappingForPath(st, Join(p, Head(children)))} |->
           IF r.err # "" THEN r
           ELSE RemoveMappingForChildren(r.st, p, Tail(children))])

RECURSIVE RemoveDroppedChildren(_, _, _, _, _)
\* The loop of StoreSnapshot over the mapped sub paths of p.
RemoveDroppedChildren(st, p, isDir, currTree, entries) ==
    IF entries = <<>> THEN [err |-> "", st |-> st]
    ELSE IF isDir /\ Head(entries) \in DOMAIN currTree
    THEN RemoveDroppedChildren(st, p, isDir, currTree, Tail(entries))
    ELSE Let([r \in {RemoveMappingForPath(st, Join(p, Head(entries)))} |->
           IF r.err # "" THEN r
           ELSE RemoveDroppedChildren(r.st, p, isDir, currTree, Tail(entries))])

\* StoreSnapshot: [err, h, st]
StoreSnapshot(st, p, f, nonce) ==
    LET st1 == [st EXCEPT !.mappedPaths = @ \cup {q \in AllPaths : IsPrefix(q, p)}]
        bs == FileString(f)
    IN  Let([so \in {StoreObject(st1, ByteLen(bs), bs, nonce)} |->
          LET st2 == [so.st EXCEPT !.paths[p] = so.h]
          IN  IF so.err # "" THEN [err |-> "save", h |-> NilHash, st |-> st1]
              ELSE
              Let([l \in {IF IsDir(f) THEN ListDirectorySnapshotContents(st2, so.h, f)
                           ELSE [err |-> "", tree |-> EmptyTree]} |->
                IF l.err # "" THEN [err |-> "list", h |-> NilHash, st |-> st2]
                ELSE Let([r \in {RemoveDroppedChildren(st2, p, IsDir(f), l.tree,
                                     SortedSeq(ChildNames(st2.mappedPaths, p), 1))} |->
                       IF r.err # "" THEN [err |-> "remove", h |-> NilHash, st |-> r.st]
                       ELSE [err |-> "", h |-> so.h, st |-> r.st]])])])

\* cachedInfo of a file: what os.FileInfo reports of it (ModTime stands for
\* the modification time together with the inode).
cachedInfo(info) == [Size |-> info.Size, Mode |-> info.Mode, ModTime |-> info.ModTime]

\* CachePathInfo: the new store
CachePathInfo(st, p, info) ==
    IF st.cache[p] # NoCache
    THEN \* os.Remove succeeded, which the function reports as a failure
         [st EXCEPT !.cache[p] = NoCache]
    ELSE [st EXCEPT !.cache[p] = cachedInfo(info)]

\* A faulty variant of PathInfoMatchesCache: the modification time and the
\* inode are not compared.
PathInfoMatchesCacheSizeAndMode(st, p, info) ==
    /\ st.cache[p] # NoCache
    /\ st.cache[p].Size = info.Size
    /\ st.cache[p].Mode = info.Mode

PathInfoMatchesCache(st, p, info) ==
    st.cache[p] # NoCache /\ st.cache[p] = cachedInfo(info)

(***************************************************************************)
(* The local file system.  An entry is absent, a regular file (data,       *)
(* permissions, modification time), a directory (permissions) or a         *)
(* symbolic link (target in data).  mtime stands for what the path-info    *)
(* cache records besides size and mode: modification time and inode.       *)
(***************************************************************************)
Absent == [type |-> "absent", perm |-> "", data |-> "", mtime |-> 0]
RegularFile(perm, data, mtime) == [type |-> "file", perm |-> perm, data |-> data, mtime |-> mtime]
Directory(perm) == [type |-> "dir", perm |-> perm, data |-> "", mtime |-> 0]
SymLink(target) == [type |-> "link", perm |-> "rwxrwxrwx", data |-> target, mtime |-> 0]

Exists(fsys, p) == p \in AllPaths /\ fsys[p].type # "absent"

\* os.FileInfo of an entry: Size(), Mode().String(), ModTime() and inode.
FileInfo(node) ==
    [Size |-> ByteLen(Bytes(node.data)),
     Mode |-> IF node.type = "dir" THEN DirMode(node.perm)
              ELSE IF node.type = "link" THEN LinkMode(node.perm)
              ELSE RegMode(node.perm),
     ModTime |-> node.mtime]

\* os.RemoveAll
RemoveAll(fsys, p) == [q \in AllPaths |-> IF IsPrefix(p, q) THEN Absent ELSE fsys[q]]

\* The archive as the file system fsys holds it: a store whose archive
\* directory is under w and is no longer a directory has lost its files.
Surviving(st, fsys) ==
    IF st.ArchiveDir \in AllPaths /\ fsys[st.ArchiveDir].type # "dir"
    THEN [EmptyStore EXCEPT !.ArchiveDir = st.ArchiveDir]
    ELSE st

(***************************************************************************)
(* snapshot.Current and its helpers.  Results are [err, h, f, st].         *)
(***************************************************************************)
NilSnapshot(st) == [err |-> "", h |-> NilHash, f |-> NilFile, st |-> st]

\* A faulty variant of snapshotFileMetadata: an unchanged path is stored
\* again as a new snapshot.
snapshotFileMetadataRenew(st, p, info, contentsHash, nonce) ==
    Let([found \in {FindSnapshot(st, p)} |->
      IF found.err # "" /\ found.err # "notexist"
      THEN [err |-> "lookup", h |-> NilHash, f |-> NilFile, st |-> st]
      ELSE LET f == [Mode |-> info.Mode,
                     Contents |-> contentsHash,
                     Parents |-> IF found.f # NilFile THEN <<found.h>> ELSE <<>>]
           IN  Let([r \in {StoreSnapshot(st, p, f, nonce)} |->
                 IF r.err # "" THEN [err |-> "save", h |-> NilHash, f |-> NilFile, st |-> r.st]
                 ELSE [err |-> "", h |-> r.h, f |-> f, st |-> r.st]])])

\* A faulty variant of snapshotFileMetadata: the previous snapshot is not
\* recorded as the parent of the new one.
snapshotFileMetadataOrphan(st, p, info, contentsHash, nonce) ==
    Let([found \in {FindSnapshot(st, p)} |->
      IF found.err # "" /\ found.err # "notexist"
      THEN [err |-> "lookup", h |-> NilHash, f |-> NilFile, st |-> st]
      ELSE IF /\ found.f # NilFile /\ found.f.Mode = info.Mode
              /\ HashEqual(found.f.Contents, contentsHash)
      THEN [err |-> "", h |-> found.h, f |-> found.f, st |-> st]
      ELSE LET f == [Mode |-> info.Mode, Contents |-> contentsHash, Parents |-> <<>>]
           IN  Let([r \in {StoreSnapshot(st, p, f, nonce)} |->
                 IF r.err # "" THEN [err |-> "save", h |-> NilHash, f |-> NilFile, st |-> r.st]
                 ELSE [err |-> "", h |-> r.h, f |-> f, st |-> r.st]])])

snapshotFileMetadata(st, p, info, contentsHash, nonce) ==
    Let([found \in {FindSnapshot(st, p)} |->
      LET modeLine == info.Mode
          prev == found.f
      IN  IF found.err # "" /\ found.err # "notexist"
          THEN [err |-> "lookup", h |-> NilHash, f |-> NilFile, st |-> st]
          ELSE IF prev # NilFile /\ prev.Mode = modeLine /\ HashEqual(prev.Contents, contentsHash)
          THEN [err |-> "", h |-> found.h, f |-> prev, st |-> st]
          ELSE LET f == [Mode |-> modeLine,
                         Contents |-> contentsHash,
                         Parents |-> IF prev # NilFile THEN <<found.h>> ELSE <<>>]
               IN  Let([r \in {StoreSnapshot(st, p, f, nonce)} |->
                     IF r.err # ""
                     THEN [err |-> "save", h |-> NilHash, f |-> NilFile, st |-> r.st]
                     ELSE [err |-> "", h |-> r.h, f |-> f, st |-> r.st]])])

\* readCached: [ok, h, f]
readCached(st, p, info) ==
    IF ~PathInfoMatchesCache(st, p, info) THEN [ok |-> FALSE, h |-> NilHash, f |-> NilFile]
    ELSE Let([found \in {FindSnapshot(st, p)} |->
           IF found.err # "" THEN [ok |-> FALSE, h |-> NilHash, f |-> NilFile]
           ELSE [ok |-> TRUE, h |-> found.h, f |-> found.f]])

snapshotRegularFile(st, p, info, contents, nonce) ==
    Let([cached \in {readCached(st, p, info)} |->
      IF cached.ok THEN [err |-> "", h |-> cached.h, f |-> cached.f, st |-> st]
      ELSE Let([so \in {StoreObject(st, info.Size, contents, nonce)} |->
           IF so.err # "" THEN [err |-> "store", h |-> NilHash, f |-> NilFile, st |-> so.st]
           ELSE
           Let([r \in {snapshotFileMetadata(so.st, p, info, so.h, nonce)} |->
             IF r.err = "" /\ r.h # NilHash
             THEN [r EXCEPT !.st = CachePathInfo(r.st, p, info)]
             ELSE r])])])

snapshotLink(st, p, info, target, nonce) ==
    Let([so \in {StoreObject(st, ByteLen(Bytes(target)), Bytes(target), nonce)} |->
      IF so.err # "" THEN [err |-> "store", h |-> NilHash, f |-> NilFile, st |-> so.st]
      ELSE snapshotFileMetadata(so.st, p, info, so.h, nonce)])

RECURSIVE Current(_, _, _, _)
RECURSIVE snapshotChildren(_, _, _, _, _, _)

\* The loop of snapshotDirectory over the entries: [err, tree, st]
snapshotChildren(st, fsys, p, entries, childHashes, nonce) ==
    IF entries = <<>> THEN [err |-> "", tree |-> childHashes, st |-> st]
    ELSE Let([r \in {Current(st, fsys, Join(p, Head(entries)), nonce)} |->
           IF r.err # "" THEN [err |-> "child", tree |-> childHashes, st |-> r.st]
           ELSE snapshotChildren(r.st, fsys, p, Tail(entries),
                                 IF r.h # NilHash
                                 THEN [n \in DOMAIN childHashes \cup {Head(entries)} |->
                                         IF n = Head(entries) THEN r.h ELSE childHashes[n]]
                                 ELSE childHashes,
                                 nonce)])

\* contents.ReadDir(0): the names of the entries of the directory p.
ReadDir(fsys, p) == SortedSeq({n \in Names : Exists(fsys, Join(p, n))}, 1)

\* snapshotDirectory after the directory was read: entries is what ReadDir
\* returned, fsys the file system the children are looked up in. The error
\* of StoreObject is not looked at: when storing the tree fails, the nil
\* hash it returned is handed on as the contents.
snapshotDirectoryEntries(st, fsys, p, info, entries, nonce) ==
    Let([c \in {snapshotChildren(st, fsys, p, entries, EmptyTree, nonce)} |->
      IF c.err # "" THEN [err |-> "child", h |-> NilHash, f |-> NilFile, st |-> c.st]
      ELSE Let([so \in {StoreObject(c.st, ByteLen(TreeString(c.tree)),
                                    TreeString(c.tree), nonce)} |->
             snapshotFileMetadata(so.st, p, info, so.h, nonce)])])

snapshotDirectory(st, fsys, p, info, nonce) ==
    snapshotDirectoryEntries(st, fsys, p, info, ReadDir(fsys, p), nonce)

\* A faulty variant of Current: a path that does not exist is an error.
CurrentMissingFails(st, fsys, p, nonce) ==
    IF Exclude(st, p) THEN NilSnapshot(st)
    ELSE IF ~Exists(fsys, p) THEN [err |-> "stat", h |-> NilHash, f |-> NilFile, st |-> st]
    ELSE IF fsys[p].type = "link"
    THEN snapshotLink(st, p, FileInfo(fsys[p]), fsys[p].data, nonce)
    ELSE IF fsys[p].type = "dir"
    THEN snapshotDirectory(st, fsys, p, FileInfo(fsys[p]), nonce)
    ELSE snapshotRegularFile(st, p, FileInfo(fsys[p]), Bytes(fsys[p].data), nonce)

Current(st, fsys, p, nonce) ==
    IF Exclude(st, p) THEN NilSnapshot(st)
    ELSE IF ~Exists(fsys, p) THEN NilSnapshot(st)
    ELSE IF fsys[p].type = "link"
    THEN snapshotLink(st, p, FileInfo(fsys[p]), fsys[p].data, nonce)
    ELSE IF fsys[p].type = "dir"
    THEN snapshotDirectory(st, fsys, p, FileInfo(fsys[p]), nonce)
    ELSE snapshotRegularFile(st, p, FileInfo(fsys[p]), Bytes(fsys[p].data), nonce)

(***************************************************************************)
(* log.ReadLog, as the specification describes it: a breadth-first         *)
(* traversal from h through the parents, deduplicated by hash; depth 0     *)
(* gives the empty log, depth 1 the root only, a negative depth no limit.  *)
(* The log is the sequence of the hashes of its entries.                   *)
(***************************************************************************)
RECURSIVE ReadLogLoop(_, _, _, _, _)
ReadLogLoop(st, queue, visited, result, depth) ==
    IF queue = <<>> THEN [err |-> "", log |-> result]
    ELSE LET e == Head(queue)
         IN  IF e.h \in visited \/ (depth >= 0 /\ e.level > depth)
             THEN ReadLogLoop(st, Tail(queue), visited, result, depth)
             ELSE Let([r \in {ReadSnapshot(st, e.h)} |->
                    IF r.err # "" THEN [err |-> "read", log |-> <<>>]
                    ELSE ReadLogLoop(st,
                             Tail(queue) \o [i \in 1..Len(r.f.Parents) |->
                                               [h |-> r.f.Parents[i], level |-> e.level + 1]],
                             visited \cup {e.h}, Append(result, e.h), depth)])

ReadLog(st, h, depth) == ReadLogLoop(st, <<[h |-> h, level |-> 1]>>, {}, <<>>, depth)

Range(seq) == {seq[i] : i \in 1..Len(seq)}

(***************************************************************************)
(* merge.Base and merge.IsAncestor                                         *)
(***************************************************************************)
\* IsAncestor: [err, ok]
IsAncestor(st, base, h) ==
    Let([snapshotLog \in {ReadLog(st, h, 0 - 1)} |->
      IF snapshotLog.err # "" THEN [err |-> "read", ok |-> FALSE]
      ELSE [err |-> "", ok |-> \E i \in 1..Len(snapshotLog.log) :
                                   HashEqual(snapshotLog.log[i], base)]])

\* A faulty variant of BaseLoop: only the heads of the two logs are compared.
BaseLoopOnce(lhsLog, rhsLog, lhsAncestors, rhsAncestors) ==
    IF ~(Len(lhsLog) > 0 /\ Len(rhsLog) > 0) THEN NilHash
    ELSE IF lhsLog[1] \in rhsAncestors THEN lhsLog[1]
    ELSE IF rhsLog[1] \in lhsAncestors THEN rhsLog[1]
    ELSE NilHash

RECURSIVE BaseLoop(_, _, _, _)
\* The loop of Base over the two logs in step.
BaseLoop(lhsLog, rhsLog, lhsAncestors, rhsAncestors) ==
    IF ~(Len(lhsLog) > 0 /\ Len(rhsLog) > 0) THEN NilHash
    ELSE IF lhsLog[1] \in rhsAncestors THEN lhsLog[1]
    ELSE IF rhsLog[1] \in lhsAncestors THEN rhsLog[1]
    ELSE BaseLoop(Tail(lhsLog), Tail(rhsLog), lhsAncestors, rhsAncestors)

\* A faulty variant of Base: only the left log is searched for a common
\* ancestor.
BaseLeftOnly(st, lhs, rhs) ==
    IF HashEqual(lhs, rhs) THEN [err |-> "", h |-> lhs]
    ELSE IF lhs = NilHash \/ rhs = NilHash THEN [err |-> "", h |-> NilHash]
    ELSE Let([lhsLog \in {ReadLog(st, lhs, 0 - 1)} |->
           IF lhsLog.err # "" THEN [err |-> "read", h |-> NilHash]
           ELSE Let([rhsLog \in {ReadLog(st, rhs, 0 - 1)} |->
                  IF rhsLog.err # "" THEN [err |-> "read", h |-> NilHash]
                  ELSE LET common == {i \in 1..Len(lhsLog.log) :
                                        lhsLog.log[i] \in Range(rhsLog.log)}
                       IN  IF common = {} THEN [err |-> "", h |-> NilHash]
                           ELSE [err |-> "",
                                 h |-> lhsLog.log[CHOOSE i \in common :
                                                    \A j \in common : i <= j]]])])

\* Base: [err, h]
Base(st, lhs, rhs) ==
    IF HashEqual(lhs, rhs) THEN [err |-> "", h |-> lhs]
    ELSE IF lhs = NilHash \/ rhs = NilHash THEN [err |-> "", h |-> NilHash]
    ELSE Let([lhsLog \in {ReadLog(st, lhs, 0 - 1)} |->
           IF lhsLog.err # "" THEN [err |-> "read", h |-> NilHash]
           ELSE Let([rhsLog \in {ReadLog(st, rhs, 0 - 1)} |->
                  IF rhsLog.err # "" THEN [err |-> "read", h |-> NilHash]
                  ELSE [err |-> "",
                        h |-> BaseLoop(lhsLog.log, rhsLog.log,
                                       Range(lhsLog.log), Range(rhsLog.log))]])])

(***************************************************************************)
(* merge.Checkout and its helpers.  env holds what the operating system    *)
(* contributes: the umask of the process, the time stamp files written now *)
(* get, and the nonce of an encryption.  Results are [err, st, fs].        *)
(* A link target names an entry of a directory that does not exist, so     *)
(* opening a link for writing fails.                                       *)
(***************************************************************************)
Umasks == {"000", "077"}

\* perm &^ umask, for the permissions and masks of the model
Masked(perm, mask) == IF mask = "077" THEN "rwx------" ELSE perm

\* os.MkdirAll(p, 0700): [err, fs]
MkdirAll(fsys, p, env) ==
    LET dirs == {q \in AllPaths : IsPrefix(q, p)}
    IN  IF \E q \in dirs : fsys[q].type \in {"file", "link"}
        THEN [err |-> "notdir", fs |-> fsys]
        ELSE [err |-> "",
              fs |-> [q \in AllPaths |->
                        IF q \in dirs /\ fsys[q].type = "absent"
                        THEN Directory(Masked("rwx------", env.umask))
                        ELSE fsys[q]]]

recreateLink(st, fsys, h, f, p) ==
    Let([contents \in {ReadObject(st, f.Contents)} |->
      LET target == Text(contents.bytes)
      IN  IF contents.err # "" THEN [err |-> "read", st |-> st, fs |-> fsys]
          ELSE IF fsys[p].type = "link" /\ fsys[p].data = target
          THEN [err |-> "", st |-> st, fs |-> fsys]
          ELSE IF target = ""
          THEN [err |-> "symlink", st |-> Surviving(st, RemoveAll(fsys, p)),
                fs |-> RemoveAll(fsys, p)]
          ELSE [err |-> "", st |-> Surviving(st, RemoveAll(fsys, p)),
                fs |-> [RemoveAll(fsys, p) EXCEPT ![p] = SymLink(target)]]])

\* ensureDirExistsWithPermissions: the file system afterwards
ensureDirExistsWithPermissions(fsys, path, perm, env) ==
    IF fsys[path].type = "absent"
    THEN [fsys EXCEPT ![path] = Directory(Masked(perm, env.umask))]
    ELSE IF fsys[path].type = "dir"
    THEN [fsys EXCEPT ![path].perm = perm]
    ELSE [RemoveAll(fsys, path) EXCEPT ![path] = Directory(Masked(perm, env.umask))]

\* ensureFileExistsWithPermissions and the copy of the contents into the file
ensureFileExistsWithPermissions(fsys, path, perm, data, env) ==
    IF fsys[path].type \in {"absent", "file"}
    THEN [fsys EXCEPT ![path] = RegularFile(perm, data, env.time)]
    ELSE [RemoveAll(fsys, path) EXCEPT ![path] = RegularFile(perm, data, env.time)]

RECURSIVE Checkout(_, _, _, _, _)
RECURSIVE checkoutChildren(_, _, _, _, _, _)

\* The second loop of recreateDir, over the entries of the tree.
checkoutChildren(st, fsys, p, tree, children, env) ==
    IF children = <<>> THEN [err |-> "", st |-> st, fs |-> fsys]
    ELSE IF Exclude(st, Join(p, Head(children)))
    THEN checkoutChildren(st, fsys, p, tree, Tail(children), env)
    ELSE Let([r \in {Checkout(st, fsys, tree[Head(children)],
                              Join(p, Head(children)), env)} |->
           IF r.err # "" THEN [err |-> "child", st |-> r.st, fs |-> r.fs]
           ELSE checkoutChildren(r.st, r.fs, p, tree, Tail(children), env)])

recreateDir(st, fsys, h, f, p, env) ==
    Let([fs1 \in {ensureDirExistsWithPermissions(fsys, p, Permissions(f), env)} |->
    Let([l \in {ListDirectorySnapshotContents(Surviving(st, fs1), h, f)} |->
      IF l.err # "" THEN [err |-> "list", st |-> Surviving(st, fs1), fs |-> fs1]
      ELSE Let([fs2 \in {[q \in AllPaths |->
                  IF /\ Len(q) > Len(p) /\ IsPrefix(p, q)
                     /\ q[Len(p) + 1] \notin DOMAIN l.tree
                     /\ ~Exclude(st, SubSeq(q, 1, Len(p) + 1))
                  THEN Absent ELSE fs1[q]]} |->
             checkoutChildren(Surviving(st, fs2), fs2,
                              p, l.tree, SortedSeq(DOMAIN l.tree, 1), env)])])])

recreateFile(st, fsys, h, f, p, env) ==
    IF IsLink(f) THEN recreateLink(st, fsys, h, f, p)
    ELSE IF IsDir(f) THEN recreateDir(st, fsys, h, f, p, env)
    ELSE Let([contents \in {ReadObject(st, f.Contents)} |->
           IF contents.err # "" THEN [err |-> "read", st |-> st, fs |-> fsys]
           ELSE Let([fs1 \in {ensureFileExistsWithPermissions(fsys, p, Permissions(f),
                                                            Text(contents.bytes), env)} |->
                  [err |-> "", st |-> Surviving(st, fs1), fs |-> fs1]])])

Checkout(st, fsys, h, p, env) ==
    IF p \notin AllPaths THEN [err |-> "outside", st |-> st, fs |-> fsys]
    ELSE Let([r \in {ReadSnapshot(st, h)} |->
      IF r.err # "" THEN [err |-> "read", st |-> st, fs |-> fsys]
      ELSE IF r.f = NilFile THEN [err |-> "", st |-> st, fs |-> fsys]
      ELSE Let([m \in {MkdirAll(fsys, Dir(p), env)} |->
        IF m.err # "" THEN [err |-> "mkdir", st |-> st, fs |-> fsys]
        ELSE Let([c \in {recreateFile(st, m.fs, h, r.f, p, env)} |->
          IF c.err # "" THEN [err |-> "recreate", st |-> c.st, fs |-> c.fs]
          ELSE Let([a \in {MkdirAll(c.fs, c.st.ArchiveDir, env)} |->
            IF a.err # "" THEN [err |-> "save", st |-> c.st, fs |-> c.fs]
            ELSE Let([s \in {StoreSnapshot(c.st, p, r.f, env.nonce)} |->
              IF s.err # "" THEN [err |-> "save", st |-> s.st, fs |-> a.fs]
              ELSE [err |-> "", st |-> s.st, fs |-> a.fs]])])])])])

(***************************************************************************)
(* merge.mergeWithBase and merge.Merge.  err is "conflict" when the two    *)
(* snapshots have to be merged manually.                                   *)
(***************************************************************************)
TreeGet(tree, name) == IF name \in DOMAIN tree THEN tree[name] ELSE NilHash

RECURSIVE mergeWithBase(_, _, _, _, _, _, _)
RECURSIVE mergeChildren(_, _, _, _, _, _, _, _, _, _, _, _)

\* The result of a merge that fails with an error naming the subpaths in
\* conflicts; visited are the subpaths the merge went through.
MergeError(err, st, conflicts, visited) ==
    [err |-> err, h |-> NilHash, st |-> st, conflicts |-> conflicts, visited |-> visited]

\* A faulty variant of mergeChildren: the loop ends with the first child
\* that fails.
mergeChildrenUntilFailure(st, subPath, baseTree, srcTree, destTree, subpaths, mergedTree, failed, conflicts, visited, forceKeepMode, nonce) ==
    IF subpaths = <<>> \/ failed
    THEN [failed |-> failed, tree |-> mergedTree, st |-> st,
          conflicts |-> conflicts, visited |-> visited]
    ELSE Let([r \in {mergeWithBase(st, Join(subPath, Head(subpaths)),
                                   TreeGet(baseTree, Head(subpaths)),
                                   TreeGet(srcTree, Head(subpaths)),
                                   TreeGet(destTree, Head(subpaths)),
                                   forceKeepMode, nonce)} |->
           mergeChildren(r.st, subPath, baseTree, srcTree, destTree, Tail(subpaths),
                         IF r.h # NilHash
                         THEN [n \in DOMAIN mergedTree \cup {Head(subpaths)} |->
                                 IF n = Head(subpaths) THEN r.h ELSE mergedTree[n]]
                         ELSE mergedTree,
                         failed \/ r.err # "", conflicts \cup r.conflicts,
                         visited \cup r.visited, forceKeepMode, nonce)])

\* The loop of mergeWithBase over the subpaths: [failed, tree, st,
\* conflicts, visited]
mergeChildren(st, subPath, baseTree, srcTree, destTree, subpaths, mergedTree, failed, conflicts, visited, forceKeepMode, nonce) ==
    IF subpaths = <<>>
    THEN [failed |-> failed, tree |-> mergedTree, st |-> st,
          conflicts |-> conflicts, visited |-> visited]
    ELSE Let([r \in {mergeWithBase(st, Join(subPath, Head(subpaths)),
                                   TreeGet(baseTree, Head(subpaths)),
                                   TreeGet(srcTree, Head(subpaths)),
                                   TreeGet(destTree, Head(subpaths)),
                                   forceKeepMode, nonce)} |->
           mergeChildren(r.st, subPath, baseTree, srcTree, destTree, Tail(subpaths),
                         IF r.h # NilHash
                         THEN [n \in DOMAIN mergedTree \cup {Head(subpaths)} |->
                                 IF n = Head(subpaths) THEN r.h ELSE mergedTree[n]]
                         ELSE mergedTree,
                         failed \/ r.err # "", conflicts \cup r.conflicts,
                         visited \cup r.visited, forceKeepMode, nonce)])

\* A faulty variant of mergeWithBase: a side that is nil is a conflict before
\* anything else is looked at.
mergeWithBaseNilFirst(st, subPath, base, src, dest, forceKeepMode, nonce) ==
    IF src = NilHash \/ dest = NilHash THEN MergeError("conflict", st, {subPath}, {subPath})
    ELSE IF HashEqual(src, dest)
    THEN [err |-> "", h |-> src, st |-> st, conflicts |-> {}, visited |-> {subPath}]
    ELSE IF HashEqual(src, base)
    THEN [err |-> "", h |-> dest, st |-> st, conflicts |-> {}, visited |-> {subPath}]
    ELSE IF HashEqual(dest, base)
    THEN [err |-> "", h |-> src, st |-> st, conflicts |-> {}, visited |-> {subPath}]
    ELSE MergeError("conflict", st, {subPath}, {subPath})

\* A faulty variant of mergeWithBase: a side that is nil gives way to the
\* other side, and everything else that is not trivial is a conflict.
mergeWithBaseKeepOther(st, subPath, base, src, dest, forceKeepMode, nonce) ==
    IF HashEqual(src, dest)
    THEN [err |-> "", h |-> src, st |-> st, conflicts |-> {}, visited |-> {subPath}]
    ELSE IF HashEqual(src, base) \/ src = NilHash
    THEN [err |-> "", h |-> dest, st |-> st, conflicts |-> {}, visited |-> {subPath}]
    ELSE IF HashEqual(dest, base) \/ dest = NilHash
    THEN [err |-> "", h |-> src, st |-> st, conflicts |-> {}, visited |-> {subPath}]
    ELSE MergeError("conflict", st, {subPath}, {subPath})

\* mergeWithBase: [err, h, st, conflicts, visited]
mergeWithBase(st, subPath, base, src, dest, forceKeepMode, nonce) ==
    IF HashEqual(src, dest)
    THEN [err |-> "", h |-> src, st |-> st, conflicts |-> {}, visited |-> {subPath}]
    ELSE IF HashEqual(src, base)
    THEN [err |-> "", h |-> dest, st |-> st, conflicts |-> {}, visited |-> {subPath}]
    ELSE IF HashEqual(dest, base)
    THEN [err |-> "", h |-> src, st |-> st, conflicts |-> {}, visited |-> {subPath}]
    ELSE IF src = NilHash \/ dest = NilHash
    THEN MergeError("conflict", st, {subPath}, {subPath})
    ELSE Let([srcIsAncestor \in {IsAncestor(st, base, src)} |->
      IF srcIsAncestor.err # "" THEN MergeError("read", st, {}, {subPath})
      ELSE IF ~srcIsAncestor.ok THEN MergeError("conflict", st, {subPath}, {subPath})
      ELSE Let([destIsAncestor \in {IsAncestor(st, base, dest)} |->
      IF destIsAncestor.err # "" THEN MergeError("read", st, {}, {subPath})
      ELSE IF ~destIsAncestor.ok THEN MergeError("conflict", st, {subPath}, {subPath})
      ELSE Let([srcFile \in {ReadSnapshot(st, src)} |->
           Let([destFile \in {ReadSnapshot(st, dest)} |->
           Let([baseFile \in {IF base # NilHash THEN ReadSnapshot(st, base)
                              ELSE [err |-> "", f |-> NilFile]} |->
      IF srcFile.err # "" \/ destFile.err # "" \/ baseFile.err # ""
      THEN MergeError("read", st, {}, {subPath})
      ELSE IF IsLink(srcFile.f) \/ IsLink(destFile.f)
      THEN MergeError("conflict", st, {subPath}, {subPath})
      ELSE IF ~(IsDir(srcFile.f) /\ IsDir(destFile.f))
      THEN MergeError("conflict", st, {subPath}, {subPath})
      ELSE Let([srcTree \in {ListDirectorySnapshotContents(st, src, srcFile.f)} |->
           Let([destTree \in {ListDirectorySnapshotContents(st, dest, destFile.f)} |->
           Let([baseTree \in {IF IsDir(baseFile.f)
                              THEN ListDirectorySnapshotContents(st, base, baseFile.f)
                              ELSE [err |-> "", tree |-> EmptyTree]} |->
      IF srcTree.err # "" \/ destTree.err # "" \/ baseTree.err # ""
      THEN MergeError("read", st, {}, {subPath})
      ELSE Let([c \in {mergeChildren(st, subPath, baseTree.tree, srcTree.tree, destTree.tree,
                           SortedSeq(DOMAIN srcTree.tree \cup DOMAIN destTree.tree, 1),
                           EmptyTree, FALSE, {}, {subPath}, forceKeepMode, nonce)} |->
      IF c.failed \/ (srcFile.f.Mode # destFile.f.Mode /\ ~forceKeepMode)
      THEN MergeError("conflict", c.st,
                      c.conflicts \cup (IF srcFile.f.Mode # destFile.f.Mode /\ ~forceKeepMode
                                        THEN {subPath} ELSE {}),
                      c.visited)
      ELSE Let([so \in {StoreObject(c.st, ByteLen(TreeString(c.tree)),
                                    TreeString(c.tree), nonce)} |->
           LET mergedFile == [Mode |-> srcFile.f.Mode, Contents |-> so.h,
                              Parents |-> <<src, dest>>]
               fileBytes == FileString(mergedFile)
           IN  IF so.err # "" THEN MergeError("store", so.st, {}, c.visited)
               ELSE
               Let([sf \in {StoreObject(so.st, ByteLen(fileBytes), fileBytes, nonce)} |->
                 IF sf.err # "" THEN MergeError("store", sf.st, {}, c.visited)
                 ELSE [err |-> "", h |-> sf.h, st |-> sf.st, conflicts |-> {},
                       visited |-> c.visited]])])])])])])])])])])])

\* A faulty variant of Merge: a source that is not yet merged in is checked
\* out over the destination instead of being merged with it.
MergeOverwrite(st, fsys, src, dest, env) ==
    Let([m \in {MkdirAll(fsys, Dir(dest), env)} |->
      IF m.err # "" THEN [err |-> "mkdir", st |-> st, fs |-> fsys]
      ELSE Let([cur \in {Current(st, m.fs, dest, env.nonce)} |->
      IF cur.err # "" THEN [err |-> "current", st |-> cur.st, fs |-> m.fs]
      ELSE IF cur.h = NilHash THEN Checkout(cur.st, m.fs, src, dest, env)
      ELSE Let([b \in {Base(cur.st, src, cur.h)} |->
      IF b.err # "" THEN [err |-> "base", st |-> cur.st, fs |-> m.fs]
      ELSE IF HashEqual(b.h, src) THEN [err |-> "", st |-> cur.st, fs |-> m.fs]
      ELSE Checkout(Surviving(cur.st, RemoveAll(m.fs, dest)), RemoveAll(m.fs, dest),
                    src, dest, env)])])])

\* A faulty variant of Merge: a source that has already been merged in is
\* merged and checked out again.
MergeAgain(st, fsys, src, dest, env) ==
    Let([m \in {MkdirAll(fsys, Dir(dest), env)} |->
      IF m.err # "" THEN [err |-> "mkdir", st |-> st, fs |-> fsys]
      ELSE Let([cur \in {Current(st, m.fs, dest, env.nonce)} |->
      IF cur.err # "" THEN [err |-> "current", st |-> cur.st, fs |-> m.fs]
      ELSE IF cur.h = NilHash THEN Checkout(cur.st, m.fs, src, dest, env)
      ELSE Let([b \in {Base(cur.st, src, cur.h)} |->
      IF b.err # "" THEN [err |-> "base", st |-> cur.st, fs |-> m.fs]
      ELSE Let([merged \in {mergeWithBase(cur.st, dest, b.h, src, cur.h, FALSE, env.nonce)} |->
      IF merged.err # "" THEN [err |-> merged.err, st |-> merged.st, fs |-> m.fs]
      ELSE Checkout(Surviving(merged.st, RemoveAll(m.fs, dest)), RemoveAll(m.fs, dest),
                    merged.h, dest, env)])])])])

\* A faulty variant of Merge: the destination is removed before the merge
\* is known to succeed.
MergeEager(st, fsys, src, dest, env) ==
    Let([m \in {MkdirAll(fsys, Dir(dest), env)} |->
      IF m.err # "" THEN [err |-> "mkdir", st |-> st, fs |-> fsys]
      ELSE Let([cur \in {Current(st, m.fs, dest, env.nonce)} |->
      IF cur.err # "" THEN [err |-> "current", st |-> cur.st, fs |-> m.fs]
      ELSE IF cur.h = NilHash THEN Checkout(cur.st, m.fs, src, dest, env)
      ELSE Let([b \in {Base(cur.st, src, cur.h)} |->
      IF b.err # "" THEN [err |-> "base", st |-> cur.st, fs |-> m.fs]
      ELSE IF HashEqual(b.h, src) THEN [err |-> "", st |-> cur.st, fs |-> m.fs]
      ELSE Let([merged \in {mergeWithBase(cur.st, dest, b.h, src, cur.h, FALSE, env.nonce)} |->
      IF merged.err # ""
      THEN [err |-> merged.err, st |-> merged.st, fs |-> RemoveAll(m.fs, dest)]
      ELSE Checkout(Surviving(merged.st, RemoveAll(m.fs, dest)), RemoveAll(m.fs, dest),
                    merged.h, dest, env)])])])])

\* Merge: [err, st, fs]
Merge(st, fsys, src, dest, env) ==
    Let([m \in {MkdirAll(fsys, Dir(dest), env)} |->
      IF m.err # "" THEN [err |-> "mkdir", st |-> st, fs |-> fsys]
      ELSE Let([cur \in {Current(st, m.fs, dest, env.nonce)} |->
      IF cur.err # "" THEN [err |-> "current", st |-> cur.st, fs |-> m.fs]
      ELSE IF cur.h = NilHash THEN Checkout(cur.st, m.fs, src, dest, env)
      ELSE Let([b \in {Base(cur.st, src, cur.h)} |->
      IF b.err # "" THEN [err |-> "base", st |-> cur.st, fs |-> m.fs]
      ELSE IF HashEqual(b.h, src) THEN [err |-> "", st |-> cur.st, fs |-> m.fs]
      ELSE Let([merged \in {mergeWithBase(cur.st, dest, b.h, src, cur.h, FALSE, env.nonce)} |->
      IF merged.err # "" THEN [err |-> merged.err, st |-> merged.st, fs |-> m.fs]
      ELSE Checkout(Surviving(merged.st, RemoveAll(m.fs, dest)), RemoveAll(m.fs, dest),
                    merged.h, dest, env)])])])])

(***************************************************************************)
(* The state.                                                              *)
(*   fs        the local file system under the working directory           *)
(*   umask     the file mode creation mask of the process                  *)
(*   store     the archive (storage.LocalFiles)                            *)
(*   graph     the parents of the snapshots the archive starts with        *)
(*   last      the last operation, its inputs and what it returned         *)
(*   seen      per path, the result of the last snapshot.Current of it     *)
(*   returned  the (hash, bytes) pairs StoreObject has returned            *)
(*   bundle    the bundle file written by the last export                  *)
(*   store2    a second archive, which bundles are imported into           *)
(***************************************************************************)
VARIABLES fs, umask, store, graph, last, seen, returned, bundle, store2

vars == <<fs, umask, store, graph, last, seen, returned, bundle, store2>>

NoOp == [op |-> "none"]
NoSeen == [valid |-> FALSE, h |-> NilHash, f |-> NilFile]
EmptyFS == [p \in AllPaths |-> Absent]
NoGraph == <<>>
\* No bundle file has been written.
NoBundle == [exists |-> FALSE, entries |-> <<>>]

(***************************************************************************)
(* The object store on its own: callers store and read blobs.              *)
(***************************************************************************)
Blobs == {Bytes(""), Bytes("A"), Bytes("B"), Bytes("BIG")}
SizeHints == {0, BigFileSize}

\* The files holding an object, under objects/ and largeObjects/.
StoredFiles(st) == {o.name : o \in st.objects} \cup {o.name : o \in st.largeObjects}
\* The plaintexts the store holds.
StoredBytes(st) == {o.bytes : o \in st.objects} \cup {Decrypt(o.age) : o \in st.largeObjects}

InitStore ==
    /\ fs = EmptyFS
    /\ umask = "000"
    /\ store = EmptyStore
    /\ graph = NoGraph
    /\ last = NoOp
    /\ seen = [p \in AllPaths |-> NoSeen]
    /\ returned = {}
    /\ bundle = NoBundle
    /\ store2 = EmptyStore

DoStoreObject ==
    \E bytes \in Blobs, nonce \in Nonces : \E size \in SizeHints \cup {ByteLen(bytes)} :
        LET r == StoreObject(store, size, bytes, nonce)
        IN  /\ store' = r.st
            /\ returned' = returned \cup {[h |-> r.h, bytes |-> bytes]}
            /\ last' = [op |-> "store", bytes |-> bytes, size |-> size, h |-> r.h,
                        present |-> bytes \in StoredBytes(store),
                        filesBefore |-> StoredFiles(store),
                        earlier |-> {e.h : e \in {x \in returned : x.bytes = bytes}}]
            /\ UNCHANGED <<fs, umask, graph, seen, bundle, store2>>

DoReadObject ==
    \E e \in returned :
        LET r == ReadObject(store, e.h)
        IN  /\ last' = [op |-> "read", h |-> e.h, err |-> r.err, bytes |-> r.bytes]
            /\ UNCHANGED <<fs, umask, store, graph, seen, returned, bundle, store2>>

NextStore == DoStoreObject \/ DoReadObject

SpecStore == InitStore /\ [][NextStore]_vars

\* C3: storing bytes that the store already holds returns the hash returned
\* before and leaves the set of stored object files unchanged, whatever the
\* size hint and whether the earlier copy was encrypted.
C3_StoreIdempotent ==
    (last.op = "store" /\ last.present) =>
        /\ \A h \in last.earlier : h = last.h
        /\ StoredFiles(store) = last.filesBefore

Root == <<"w">>
SubDir == <<"w", "c">>
Leaf == <<"w", "c", "g">>
Data == {"A", "B"}
\* The files, trees and snapshots written here are shorter than the large
\* object threshold: they are stored in the clear, and no nonce is drawn.
NoNonce == CHOOSE n \in Nonces : TRUE
DefaultPerm == "rwx------"

Under(p) == {q \in AllPaths : IsPrefix(p, q)}
\* What a snapshot of p records of the file system: types, permissions, data.
ContentView(fsys, p) ==
    [q \in Under(p) |-> [type |-> fsys[q].type, perm |-> fsys[q].perm, data |-> fsys[q].data]]

\* What the snapshot h records of the entry it was taken of.
RecordedEntry(st, h) ==
    LET f == ReadSnapshot(st, h).f
    IN  IF f = NilFile THEN [type |-> "absent", perm |-> "", data |-> ""]
        ELSE IF IsDir(f) THEN [type |-> "dir", perm |-> Permissions(f), data |-> ""]
        ELSE [type |-> IF IsLink(f) THEN "link" ELSE "file",
              perm |-> Permissions(f),
              data |-> Text(ReadObject(st, f.Contents).bytes)]

RECURSIVE RecordedAt(_, _, _, _)
\* What the snapshot h of the path p records of the path q under p.
RecordedAt(st, h, p, q) ==
    IF q = p THEN RecordedEntry(st, h)
    ELSE LET f == ReadSnapshot(st, h).f
             l == ListDirectorySnapshotContents(st, h, f)
             name == q[Len(p) + 1]
         IN  IF l.err = "" /\ name \in DOMAIN l.tree
             THEN RecordedAt(st, l.tree[name], Join(p, name), q)
             ELSE [type |-> "absent", perm |-> "", data |-> ""]

RecordedView(st, h, p) == [q \in Under(p) |-> RecordedAt(st, h, p, q)]

\* The entries at and under p, with their stat data.
ContentsUnder(fsys, p) == [q \in Under(p) |-> fsys[q]]

ParentIsDir(fsys, p) == Len(p) = 1 \/ (Dir(p) \in AllPaths /\ fsys[Dir(p)].type = "dir")

\* A regular file whose cache entry matches its stat data although the
\* snapshot the path maps to records another mode or other contents.
StaleCacheHit(st, fsys, q) ==
    /\ fsys[q].type = "file"
    /\ readCached(st, q, FileInfo(fsys[q])).ok
    /\ LET f == readCached(st, q, FileInfo(fsys[q])).f
       IN  \/ f = NilFile
           \/ f.Mode # FileInfo(fsys[q]).Mode
           \/ ~HashEqual(f.Contents, NewHash(Bytes(fsys[q].data)))

\* The number of snapshots (File objects) in the archive, which the model bounds.
SnapshotCount(st) ==
    Cardinality({o \in st.objects : o.bytes # <<>> /\ ParseFile(o.bytes).ok})

PopulatedFS ==
    [p \in AllPaths |->
        IF p \in {Root, SubDir} THEN Directory(DefaultPerm)
        ELSE IF p = Leaf THEN RegularFile(DefaultPerm, "A", 0)
        ELSE Absent]

Init ==
    /\ fs = PopulatedFS
    /\ umask = "000"
    /\ store = EmptyStore
    /\ graph = NoGraph
    /\ last = NoOp
    /\ seen = [p \in AllPaths |-> NoSeen]
    /\ returned = {}
    /\ bundle = NoBundle
    /\ store2 = EmptyStore

\* An edit of the entries in changed: earlier snapshots of the paths above
\* and below them no longer describe an unchanged path.
Edited(changed) ==
    seen' = [p \in AllPaths |->
               IF \E q \in changed : IsPrefix(p, q) \/ IsPrefix(q, p)
               THEN [seen[p] EXCEPT !.valid = FALSE]
               ELSE seen[p]]

WriteFile(p, data, times) ==
    \E d \in data, t \in times :
        /\ ParentIsDir(fs, p)
        /\ fs[p].type \in {"absent", "file"}
        /\ fs' = [fs EXCEPT ![p] =
                    RegularFile(IF @.type = "file" THEN @.perm ELSE DefaultPerm, d, t)]
        /\ fs' # fs
        /\ Edited({p})
        /\ last' = [op |-> "write", path |-> p]
        /\ UNCHANGED <<umask, store, graph, returned, bundle, store2>>

Chmod(p) ==
    \E perm \in Perms :
        /\ fs[p].type \in {"file", "dir"}
        /\ fs[p].perm # perm
        /\ fs' = [fs EXCEPT ![p].perm = perm]
        /\ Edited({p})
        /\ last' = [op |-> "chmod", path |-> p]
        /\ UNCHANGED <<umask, store, graph, returned, bundle, store2>>

Mkdir(p) ==
    /\ fs[p].type = "absent"
    /\ ParentIsDir(fs, p)
    /\ fs' = [fs EXCEPT ![p] = Directory(DefaultPerm)]
    /\ Edited({p})
    /\ last' = [op |-> "mkdir", path |-> p]
    /\ UNCHANGED <<umask, store, graph, returned, bundle, store2>>

Symlink(p) ==
    /\ fs[p].type = "absent"
    /\ ParentIsDir(fs, p)
    /\ fs' = [fs EXCEPT ![p] = SymLink("A")]
    /\ Edited({p})
    /\ last' = [op |-> "symlink", path |-> p]
    /\ UNCHANGED <<umask, store, graph, returned, bundle, store2>>

Remove(p) ==
    /\ Exists(fs, p)
    /\ fs' = RemoveAll(fs, p)
    /\ Edited({p})
    /\ last' = [op |-> "remove", path |-> p]
    /\ UNCHANGED <<umask, store, graph, returned, bundle, store2>>

\* The tree of the directory snapshot that p maps to (empty if none).
MappedTree(st, p) ==
    LET found == FindSnapshot(st, p)
        l == ListDirectorySnapshotContents(st, found.h, found.f)
    IN  IF found.err = "" /\ l.err = "" THEN l.tree ELSE EmptyTree

\* What a snapshot action may record of the archive it started from.
NoBefore == [paths |-> <<>>, mappedPaths |-> {}]
Before(st) == [paths |-> st.paths, mappedPaths |-> st.mappedPaths]

SnapshotRecording(p, max, before) ==
        LET r == Current(store, fs, p, NoNonce)
        IN  /\ SnapshotCount(store) < max
            /\ store' = r.st
            /\ last' = [op |-> "current", path |-> p, err |-> r.err, h |-> r.h, f |-> r.f,
                        exists |-> Exists(fs, p),
                        prev |-> seen[p],
                        mapped |-> store.paths[p],
                        stale |-> \E q \in Under(p) : StaleCacheHit(store, fs, q),
                        prevTree |-> DOMAIN MappedTree(store, p),
                        before |-> before,
                        after |-> IF last.op = "checkout" THEN last ELSE NoOp]
            /\ seen' = [q \in AllPaths |->
                          IF q = p
                          THEN [valid |-> r.err = "", h |-> r.h, f |-> r.f]
                          ELSE IF r.err = "" /\ IsPrefix(p, q) /\ Exists(fs, q)
                          THEN [valid |-> TRUE, h |-> r.st.paths[q],
                                f |-> FindSnapshot(r.st, q).f]
                          ELSE seen[q]]
            /\ UNCHANGED <<fs, umask, graph, returned, bundle, store2>>

Snapshot(p, max) == SnapshotRecording(p, max, NoBefore)

Next ==
    \/ WriteFile(Leaf, Data, Times)
    \/ Chmod(Leaf)
    \/ Symlink(Leaf)
    \/ Remove(Leaf)
    \/ Snapshot(Leaf, MaxSnapshots)
    \/ Snapshot(SubDir, MaxSnapshots)

Spec == Init /\ [][Next]_vars

\* C1: if nothing under a path changed between two successive
\* snapshot.Current calls of it, the second call returns the hash and the
\* File of the first.
C1_UnchangedSameSnapshot ==
    (last.op = "current" /\ last.prev.valid) =>
        /\ last.err = ""
        /\ last.h = last.prev.h
        /\ last.f = last.prev.f

\* A regular file, a link and a directory each snapshotted twice unchanged.
C1_Witness ==
    /\ last.op = "current"
    /\ last.prev.valid
    /\ last.h # NilHash
    /\ last.path = SubDir
    /\ fs[Leaf].type = "link"

\* The path changed since its last snapshot: it exists, it has been
\* snapshotted before, and its types, permissions or data differ from what
\* that snapshot records.
ChangedSinceLastSnapshot ==
    /\ last.op = "current"
    /\ last.exists
    /\ last.prev.h # NilHash
    /\ ContentView(fs, last.path) # RecordedView(store, last.prev.h, last.path)

HasFirstParent(f, h) == f # NilFile /\ f.Parents # <<>> /\ f.Parents[1] = h

NextTree ==
    \/ WriteFile(Leaf, {"A"}, {0})
    \/ Mkdir(SubDir)
    \/ Remove(Leaf)
    \/ Remove(SubDir)
    \/ Snapshot(Leaf, MaxTreeSnapshots)
    \/ Snapshot(SubDir, MaxTreeSnapshots)
    \/ Snapshot(Root, MaxTreeSnapshots)

SpecTree == Init /\ [][NextTree]_vars

\* C5: when a child of a directory that appeared in the directory's previous
\* snapshot has been deleted, the new snapshot's Tree has no entry for the
\* child and FindSnapshot of the child's path reports that it does not exist.
C5_DeletedChildForgotten ==
    (last.op = "current" /\ last.err = "" /\ IsDir(last.f)) =>
        \A c \in last.prevTree :
            ~Exists(fs, Join(last.path, c)) =>
                /\ c \notin DOMAIN MappedTree(store, last.path)
                /\ FindSnapshot(store, Join(last.path, c)).err = "notexist"

(***************************************************************************)
(* Merge bases: the archive holds a history of MaxNodes snapshots, each    *)
(* with up to two parents among the snapshots before it, and callers ask   *)
(* for the merge base of two of them.                                      *)
(***************************************************************************)
Nodes == 1..MaxNodes

\* The lists of at most two distinct parents among the nodes before i.
ParentLists(i) ==
    {<<>>} \cup {<<j>> : j \in 1..(i - 1)}
           \cup {pair \in (1..(i - 1)) \X (1..(i - 1)) : pair[1] # pair[2]}

RECURSIVE Histories(_)
\* The histories of n snapshots: for each snapshot, the list of its parents.
Histories(n) ==
    IF n = 0 THEN {<<>>}
    ELSE {Append(g, parents) : g \in Histories(n - 1), parents \in ParentLists(n)}

NodeText == <<"n1", "n2", "n3", "n4", "n5", "n6">>

RECURSIVE NodeHash(_, _)
NodeFile(g, i) ==
    [Mode |-> RegMode(DefaultPerm),
     Contents |-> NewHash(Bytes(NodeText[i])),
     Parents |-> [k \in 1..Len(g[i]) |-> NodeHash(g, g[i][k])]]
NodeHash(g, i) == NewHash(FileString(NodeFile(g, i)))

\* The archive holding the snapshots of the history g and their contents.
HistoryStore(g) ==
    [EmptyStore EXCEPT !.objects =
        {[name |-> objectName(NodeHash(g, i), FALSE), bytes |-> FileString(NodeFile(g, i))] :
            i \in Nodes}
        \cup {[name |-> objectName(NewHash(Bytes(NodeText[i])), FALSE),
               bytes |-> Bytes(NodeText[i])] : i \in Nodes}]

InitBase ==
    /\ graph \in Histories(MaxNodes)
    /\ store = HistoryStore(graph)
    /\ fs = EmptyFS
    /\ umask = "000"
    /\ last = NoOp
    /\ seen = [p \in AllPaths |-> NoSeen]
    /\ returned = {}
    /\ bundle = NoBundle
    /\ store2 = EmptyStore

DoBase ==
    \E x, y \in Nodes \cup {0} :
        LET lhs == IF x = 0 THEN NilHash ELSE NodeHash(graph, x)
            rhs == IF y = 0 THEN NilHash ELSE NodeHash(graph, y)
            r == Base(store, lhs, rhs)
        IN  /\ last.op = "none"
            /\ last' = [op |-> "base", x |-> x, y |-> y, lhs |-> lhs, rhs |-> rhs,
                        err |-> r.err, h |-> r.h]
            /\ UNCHANGED <<fs, umask, store, graph, seen, returned, bundle, store2>>

NextBase == DoBase

SpecBase == InitBase /\ [][NextBase]_vars

RECURSIVE AncestorNodes(_, _)
\* The ancestors of the node i in the history g: i and its parents' ancestors.
AncestorNodes(g, i) ==
    {i} \cup UNION {AncestorNodes(g, g[i][k]) : k \in 1..Len(g[i])}

\* The ancestors of a hash: the nil hash is an ancestor of every snapshot.
AncestorHashes(g, x) ==
    {NilHash} \cup (IF x = 0 THEN {} ELSE {NodeHash(g, i) : i \in AncestorNodes(g, x)})

CommonAncestors(g, x, y) == AncestorHashes(g, x) \cap AncestorHashes(g, y)

\* The proper descendants of the hash h among the hashes of S.
ProperDescendants(g, h, S) ==
    {d \in S : d # h /\ (h = NilHash \/
                \E i, j \in Nodes : /\ d = NodeHash(g, i) /\ h = NodeHash(g, j)
                                    /\ j \in AncestorNodes(g, i))}

\* C9: the merge base of x and y is a common ancestor of both, and no other
\* common ancestor is a proper descendant of it.
C9_MostRecentCommonAncestor ==
    (last.op = "base" /\ last.err = "") =>
        /\ last.h \in CommonAncestors(graph, last.x, last.y)
        /\ ProperDescendants(graph, last.h, CommonAncestors(graph, last.x, last.y)) = {}

\* C10: if y is on the parent chain of x, the merge base of x and y is y.
C10_AncestorIsBase ==
    (last.op = "base" /\ last.x # 0 /\ last.y # 0
       /\ last.y \in AncestorNodes(graph, last.x)) =>
        /\ last.err = ""
        /\ last.h = last.rhs

\* y is an ancestor of x reached only through a second parent.
C10_Witness ==
    /\ last.op = "base"
    /\ last.x # 0 /\ last.y # 0 /\ last.x # last.y
    /\ last.y \in AncestorNodes(graph, last.x)
    /\ last.y \notin Range(graph[last.x])
    /\ last.h = last.rhs

(***************************************************************************)
(* Checkout and merge: the snapshots of the directory w/c are checked out  *)
(* and merged into the directory w/e beside it.                            *)
(***************************************************************************)
OtherDir == <<"w", "e">>
OtherLeaf == <<"w", "e", "g">>

\* The hashes of the snapshots of directories in the archive: the snapshots
\* that are checked out and merged here.
SnapshotHashes(st) ==
    {o.name.hash : o \in {x \in st.objects : x.bytes # <<>> /\ ParseFile(x.bytes).ok
                                              /\ IsDir(ParseFile(x.bytes).file)}}

RECURSIVE Fits(_, _, _)
\* The snapshot h and the snapshots nested in it land on paths of the model.
Fits(st, h, p) ==
    /\ p \in AllPaths
    /\ LET f == ReadSnapshot(st, h).f
           l == ListDirectorySnapshotContents(st, h, f)
       IN  IsDir(f) => \A n \in DOMAIN l.tree : Fits(st, l.tree[n], Join(p, n))

RECURSIVE Ancestors(_, _)
\* The snapshot h and the ancestors of its parents, read from the archive.
Ancestors(st, h) ==
    LET f == ReadSnapshot(st, h).f
    IN  {h} \cup UNION {Ancestors(st, f.Parents[i]) : i \in 1..Len(f.Parents)}

InitMerge ==
    /\ fs = PopulatedFS
    /\ umask \in Umasks
    /\ store = EmptyStore
    /\ graph = NoGraph
    /\ last = NoOp
    /\ seen = [p \in AllPaths |-> NoSeen]
    /\ returned = {}
    /\ bundle = NoBundle
    /\ store2 = EmptyStore

DoCheckout(p, max) ==
    \E h \in SnapshotHashes(store), t \in Times :
        LET r == Checkout(store, fs, h, p, [umask |-> umask, time |-> t, nonce |-> NoNonce])
        IN  /\ SnapshotCount(store) < max
            /\ Fits(store, h, p)
            /\ store' = r.st
            /\ fs' = r.fs
            /\ last' = [op |-> "checkout", path |-> p, h |-> h, err |-> r.err]
            /\ seen' = [q \in AllPaths |-> NoSeen]
            /\ UNCHANGED <<umask, graph, returned, bundle, store2>>

DoMerge(dest, max) ==
    \E src \in SnapshotHashes(store), t \in Times :
        LET r == Merge(store, fs, src, dest, [umask |-> umask, time |-> t, nonce |-> NoNonce])
        IN  /\ SnapshotCount(store) < max
            /\ Fits(store, src, dest)
            /\ store' = r.st
            /\ fs' = r.fs
            /\ last' = [op |-> "merge", path |-> dest, src |-> src, err |-> r.err,
                        destPrev |-> Current(store, fs, dest, NoNonce).h,
                        existed |-> Exists(fs, dest),
                        before |-> ContentsUnder(fs, dest)]
            /\ seen' = [q \in AllPaths |-> NoSeen]
            /\ UNCHANGED <<umask, graph, returned, bundle, store2>>

NextMerge ==
    \/ Chmod(SubDir)
    \/ Chmod(OtherLeaf)
    \/ Snapshot(SubDir, MaxMergeSnapshots)
    \/ Snapshot(OtherDir, MaxMergeSnapshots)
    \/ DoCheckout(OtherDir, MaxMergeSnapshots)
    \/ DoMerge(OtherDir, MaxMergeSnapshots)

SpecMerge == InitMerge /\ [][NextMerge]_vars

\* C6: after Checkout(h, P) succeeds, snapshot.Current(P) returns h and a
\* File equal to the File of h.
C6_CheckoutThenCurrent ==
    (/\ last.op = "current"
     /\ last.after.op = "checkout"
     /\ last.after.err = ""
     /\ last.after.path = last.path) =>
        /\ last.err = ""
        /\ last.h = last.after.h
        /\ last.f = ReadSnapshot(store, last.after.h).f

\* C7: if the source is already an ancestor of the snapshot of the
\* destination taken by Merge (the merge base is the source), Merge succeeds
\* and changes no file under the destination.
C7_MergedAlreadyNoOp ==
    (/\ last.op = "merge"
     /\ last.existed
     /\ last.src \in Ancestors(store, last.destPrev)) =>
        /\ last.err = ""
        /\ ContentsUnder(fs, last.path) = last.before

\* The destination moved on from the source, which is merged into it again.
C7_Witness ==
    /\ last.op = "merge"
    /\ last.existed
    /\ last.src \in Ancestors(store, last.destPrev)
    /\ last.src # last.destPrev
    /\ IsDir(ReadSnapshot(store, last.src).f)

\* C8: if Merge fails because the source conflicts with the destination,
\* the files under the destination are unchanged.
C8_ConflictLeavesFiles ==
    (last.op = "merge" /\ last.err = "conflict") =>
        ContentsUnder(fs, last.path) = last.before

\* A merge of two directories fails on a conflict.
C8_Witness ==
    /\ last.op = "merge"
    /\ last.err = "conflict"
    /\ fs[last.path].type = "dir"
    /\ IsDir(ReadSnapshot(store, last.src).f)

(***************************************************************************)
(* The bundle codec.  The name of a zip entry is the sequence of the       *)
(* segments its path has between the slashes.  A segment is plain text or  *)
(* a chunk of the hexadecimal text of a checksum: chunk k of the sum s.    *)
(***************************************************************************)
SupportedHashFunctions == {"sha256"}

Seg(text) == [text |-> text, of |-> <<>>, part |-> 0]
HexChunk(sum, k) == [text |-> "", of |-> sum, part |-> k]

\* HexContents()[0:2], HexContents()[2:4] and HexContents()[4:]
HexChunks(sum) == <<HexChunk(sum, 1), HexChunk(sum, 2), HexChunk(sum, 3)>>

bundleEntryPath(h) == <<Seg("objects"), Seg(h.function)>> \o HexChunks(h.sum)

\* hex.DecodeString accepts the text of the segments joined together.
IsHexString(contents) == \A i \in 1..Len(contents) : contents[i].part > 0

\* The checksum whose hexadecimal text is the segments joined together.
HexSum(contents) ==
    IF contents # <<>> /\ contents = HexChunks(contents[1].of) THEN contents[1].of
    ELSE <<Line("other", NilHash)>>

\* ParseHash of the string function ":" contents: [err, h]
ParseHash(function, contents) ==
    IF function.part # 0 \/ function.text \notin SupportedHashFunctions
    THEN [err |-> "unsupported", h |-> NilHash]
    ELSE IF ~IsHexString(contents) THEN [err |-> "malformed", h |-> NilHash]
    ELSE [err |-> "", h |-> [function |-> function.text, sum |-> HexSum(contents)]]

\* strings.Split(strings.TrimPrefix(path, "objects"), "/"): the first part is
\* what the first segment has after the prefix.
TrimmedParts(name) == <<Seg("")>> \o Tail(name)

\* bundlePathHash: [err, h]
bundlePathHash(name) ==
    IF name = <<>> \/ name[1] # Seg("objects")
    THEN [err |-> "notobject", h |-> NilHash]
    ELSE LET parts == TrimmedParts(name)
         IN  IF Len(parts) < 2 THEN [err |-> "invalid", h |-> NilHash]
             ELSE ParseHash(parts[1], Tail(parts))

\* The ZipWriter: [entries, visited, exclude, recurseParents, included]
NewZipWriter(exclude, metadata, recurseParents) ==
    [entries |-> [i \in 1..Len(metadata) |->
                    [name |-> <<Seg("metadata"), Seg(metadata[i].name)>>,
                     bytes |-> metadata[i].bytes]],
     visited |-> {}, exclude |-> exclude, recurseParents |-> recurseParents,
     included |-> <<>>]

\* AddObject: [err, zw]
AddObject(zw, st, h) ==
    IF h \in zw.exclude THEN [err |-> "", zw |-> zw]
    ELSE IF h \in zw.visited THEN [err |-> "", zw |-> zw]
    ELSE Let([r \in {ReadObject(st, h)} |->
           IF r.err # "" THEN [err |-> "read", zw |-> [zw EXCEPT !.visited = @ \cup {h}]]
           ELSE [err |-> "",
                 zw |-> [zw EXCEPT !.visited = @ \cup {h},
                                   !.entries = Append(@, [name |-> bundleEntryPath(h),
                                                          bytes |-> r.bytes]),
                                   !.included = Append(@, h)]]])

RECURSIVE AddFile(_, _, _, _)
RECURSIVE AddChildren(_, _, _, _)
RECURSIVE AddParents(_, _, _)

\* The loop of AddFile over the tree of a directory (in the order of the names).
AddChildren(zw, st, tree, names) ==
    IF names = <<>> THEN [err |-> "", zw |-> zw]
    ELSE IF tree[Head(names)] \in zw.exclude \/ tree[Head(names)] \in zw.visited
    THEN AddChildren(zw, st, tree, Tail(names))
    ELSE Let([child \in {ReadSnapshot(st, tree[Head(names)])} |->
           IF child.err # "" THEN [err |-> "read", zw |-> zw]
           ELSE Let([r \in {AddFile(zw, st, tree[Head(names)], child.f)} |->
                  IF r.err # "" THEN r
                  ELSE AddChildren(r.zw, st, tree, Tail(names))])])

\* The loop of AddFile over the parents: a parent that cannot be read is skipped.
AddParents(zw, st, parents) ==
    IF parents = <<>> THEN [err |-> "", zw |-> zw]
    ELSE Let([parent \in {ReadSnapshot(st, Head(parents))} |->
           IF parent.err # "" THEN AddParents(zw, st, Tail(parents))
           ELSE Let([r \in {AddFile(zw, st, Head(parents), parent.f)} |->
                  IF r.err # "" THEN r
                  ELSE AddParents(r.zw, st, Tail(parents))])])

\* AddFile: [err, zw]
AddFile(zw, st, h, f) ==
    Let([a \in {AddObject(zw, st, h)} |->
      IF a.err # "" THEN a
      ELSE IF f.Contents = NilHash THEN a
      ELSE Let([c \in {AddObject(a.zw, st, f.Contents)} |->
      IF c.err # "" THEN c
      ELSE IF ~IsDir(f) THEN c
      ELSE Let([l \in {ListDirectorySnapshotContents(st, h, f)} |->
      IF l.err # "" THEN [err |-> "list", zw |-> c.zw]
      ELSE Let([ch \in {AddChildren(c.zw, st, l.tree, SortedSeq(DOMAIN l.tree, 1))} |->
      IF ch.err # "" THEN ch
      ELSE IF ~zw.recurseParents THEN ch
      ELSE AddParents(ch.zw, st, f.Parents)])])])])

RECURSIVE ExportLoop(_, _, _)
\* The loop of Export over the snapshots.
ExportLoop(zw, st, snapshots) ==
    IF snapshots = <<>> THEN [err |-> "", zw |-> zw]
    ELSE Let([r \in {ReadSnapshot(st, Head(snapshots))} |->
           IF r.err # "" THEN [err |-> "read", zw |-> zw]
           ELSE Let([a \in {AddFile(zw, st, Head(snapshots), r.f)} |->
                  IF a.err # "" THEN a
                  ELSE ExportLoop(a.zw, st, Tail(snapshots))])])

\* Export: [err, included, bundle]
Export(st, snapshots, exclude, metadata, recurseParents) ==
    Let([r \in {ExportLoop(NewZipWriter(exclude, metadata, recurseParents), st, snapshots)} |->
      [err |-> r.err,
       included |-> IF r.err # "" THEN <<>> ELSE r.zw.included,
       bundle |-> [exists |-> TRUE, entries |-> r.zw.entries]]])

\* validateZipEntry: the error, "" if there is none
validateZipEntry(entry) ==
    Let([parsed \in {bundlePathHash(entry.name)} |->
      IF parsed.err # "" THEN ""
      ELSE IF ~HashEqual(NewHash(entry.bytes), parsed.h) THEN "mismatch"
      ELSE ""])

RECURSIVE ImportLoop(_, _, _)
\* The second loop of Import over the entries: [err, included, st]
ImportLoop(st, entries, included) ==
    IF entries = <<>> THEN [err |-> "", included |-> included, st |-> st]
    ELSE Let([parsed \in {bundlePathHash(Head(entries).name)} |->
           IF parsed.err # "" THEN ImportLoop(st, Tail(entries), included)
           ELSE IF ReadObject(st, parsed.h).err = ""
           THEN ImportLoop(st, Tail(entries), included)
           ELSE Let([so \in {StoreObject(st, ByteLen(Head(entries).bytes),
                                         Head(entries).bytes, NoNonce)} |->
                  IF so.err # "" THEN [err |-> "store", included |-> <<>>, st |-> so.st]
                  ELSE ImportLoop(so.st, Tail(entries), Append(included, so.h))])])

\* Import: [err, included, st]; the hashes to exclude are not consulted.
Import(st, b, exclude) ==
    IF ~b.exists THEN [err |-> "open", included |-> <<>>, st |-> st]
    ELSE IF \E i \in 1..Len(b.entries) : validateZipEntry(b.entries[i]) # ""
    THEN [err |-> "validate", included |-> <<>>, st |-> st]
    ELSE ImportLoop(st, b.entries, <<>>)

(***************************************************************************)
(* Bundles: snapshots of the working directory are exported from the       *)
(* archive into a bundle file, the file may be altered on its way, and it  *)
(* is imported into a second archive, which may hold objects of its own.   *)
(***************************************************************************)
MaxBundleSnapshots == 3

SeqRange(s) == {s[i] : i \in 1..Len(s)}

\* The hashes of the snapshots (File objects) in the archive.
FileHashes(st) ==
    {NewHash(o.bytes) : o \in {x \in st.objects : x.bytes # <<>> /\ ParseFile(x.bytes).ok}}

\* The metadata written into every bundle of the model.
BundleMetadata == <<[name |-> "note", bytes |-> Bytes("A")]>>

IsObjectEntry(entry) == entry.name # <<>> /\ entry.name[1] = Seg("objects")
\* The hash an object entry is named after.
EntryHash(entry) == [function |-> entry.name[2].text, sum |-> entry.name[3].of]
\* An object entry whose bytes do not have the hash it is named after.
Mismatched(b) ==
    \E i \in 1..Len(b.entries) :
        IsObjectEntry(b.entries[i]) /\ NewHash(b.entries[i].bytes) # EntryHash(b.entries[i])

DoExport ==
    \E h \in FileHashes(store), recurseParents \in BOOLEAN :
      \E exclude \in {{}, {ReadSnapshot(store, h).f.Contents}} :
        LET r == Export(store, <<h>>, exclude, BundleMetadata, recurseParents)
        IN  /\ bundle' = r.bundle
            /\ returned' = {[h |-> x, bytes |-> ReadObject(store, x).bytes] :
                              x \in SeqRange(r.included)}
            /\ last' = [op |-> "export", snapshots |-> <<h>>, exclude |-> exclude,
                        recurseParents |-> recurseParents, err |-> r.err,
                        included |-> r.included]
            /\ UNCHANGED <<fs, umask, store, graph, seen, store2>>

\* The bytes of one object entry of the bundle are altered.
Tamper ==
    \E i \in 1..Len(bundle.entries), d \in {""} :
        /\ ~Mismatched(bundle)
        /\ IsObjectEntry(bundle.entries[i])
        /\ bundle.entries[i].bytes # Bytes(d)
        /\ bundle' = [bundle EXCEPT !.entries[i].bytes = Bytes(d)]
        /\ last' = [op |-> "tamper"]
        /\ UNCHANGED <<fs, umask, store, graph, seen, returned, store2>>

\* The second archive stores an object of its own.
SeedObject ==
    \E d \in Data :
        /\ store2' = StoreObject(store2, ByteLen(Bytes(d)), Bytes(d), NoNonce).st
        /\ store2' # store2
        /\ last' = [op |-> "seed"]
        /\ UNCHANGED <<fs, umask, store, graph, seen, returned, bundle>>

DoImport ==
    \E exclude \in {{}} \cup {{EntryHash(e)} : e \in {x \in SeqRange(bundle.entries) : IsObjectEntry(x)}} :
        LET r == Import(store2, bundle, exclude)
        IN  /\ bundle.exists
            /\ store2' = r.st
            /\ last' = [op |-> "import", exclude |-> exclude, err |-> r.err,
                        included |-> r.included, before |-> store2]
            /\ UNCHANGED <<fs, umask, store, graph, seen, returned, bundle>>

NextBundle ==
    \/ WriteFile(Leaf, {"B"}, {MaxTime})
    \/ Snapshot(Leaf, MaxBundleSnapshots)
    \/ Snapshot(SubDir, MaxBundleSnapshots)
    \/ DoExport
    \/ Tamper
    \/ SeedObject
    \/ DoImport

SpecBundle == Init /\ [][NextBundle]_vars

\* C11: after a bundle exported from the archive is imported unaltered into
\* an empty second archive, every hash the export reported as included reads
\* in the second archive as it does in the first, as an object and as a
\* snapshot, and is among the hashes the import reported.
C11_Roundtrip ==
    (last.op = "import" /\ last.before = EmptyStore /\ ~Mismatched(bundle)) =>
        /\ last.err = ""
        /\ \A e \in returned :
              /\ ReadObject(store2, e.h) = [err |-> "", bytes |-> e.bytes]
              /\ ReadSnapshot(store2, e.h) = ReadSnapshot(store, e.h)
              /\ e.h \in SeqRange(last.included)

\* C12: the import of a bundle with an object entry whose bytes do not have
\* the hash the entry is named after fails, and the second archive is left
\* as it was.
C12_AlteredEntryRejected ==
    (last.op = "import" /\ Mismatched(bundle)) =>
        /\ last.err # ""
        /\ store2 = last.before

\* C13: an export with recurseParents that excludes nothing reports, for
\* every snapshot it was asked for, whatever its file type, every ancestor of
\* the snapshot that the archive holds.
C13_ParentsIncluded ==
    (last.op = "export" /\ last.recurseParents /\ last.exclude = {}) =>
        /\ last.err = ""
        /\ \A i \in 1..Len(last.snapshots) :
              \A a \in Ancestors(store, last.snapshots[i]) :
                  ReadObject(store, a).err = "" => a \in SeqRange(last.included)

\* The objects the import wrote into the second archive.
ImportedObjects == StoredFiles(store2) \ StoredFiles(last.before)

\* C14: an import that succeeds stores an object entry of the bundle exactly
\* if the object was not in the archive before and its hash is not excluded,
\* and it returns exactly the hashes of the objects it stored.
C14_StoresMissingOnly ==
    (last.op = "import" /\ last.err = "") =>
        /\ \A i \in 1..Len(bundle.entries) :
              IsObjectEntry(bundle.entries[i]) =>
                 LET h == EntryHash(bundle.entries[i])
                 IN  (\E n \in ImportedObjects : n.hash = h)
                       <=> (ReadObject(last.before, h).err # "" /\ h \notin last.exclude)
        /\ SeqRange(last.included) = {n.hash : n \in ImportedObjects}

(***************************************************************************)
(* archive.ReadLog: the log of a snapshot, read from a history of          *)
(* MaxNodes snapshots.                                                     *)
(***************************************************************************)
RECURSIVE archiveReadLogLoop(_, _, _, _)
\* The loop of archive.ReadLog over the queue: [err, log]
archiveReadLogLoop(st, queue, visited, result) ==
    IF queue = <<>> THEN [err |-> "", log |-> result]
    ELSE Let([r \in {ReadSnapshot(st, Head(queue))} |->
           IF r.err # "" THEN [err |-> "read", log |-> <<>>]
           ELSE archiveReadLogLoop(st,
                    Tail(queue) \o SelectSeq(r.f.Parents,
                                     LAMBDA p : p \notin visited \cup {Head(queue)}),
                    visited \cup {Head(queue)},
                    Append(result, Head(queue)))])

archiveReadLog(st, h) == archiveReadLogLoop(st, <<h>>, {}, <<>>)

DoReadLog ==
    \E x \in Nodes :
        LET r == archiveReadLog(store, NodeHash(graph, x))
        IN  /\ last.op = "none"
            /\ last' = [op |-> "log", x |-> x, err |-> r.err, log |-> r.log]
            /\ UNCHANGED <<fs, umask, store, graph, seen, returned, bundle, store2>>

NextLog == DoReadLog

SpecLog == InitBase /\ [][NextLog]_vars

\* C15: whatever the shape of the history, the log of a snapshot lists no
\* hash more than once.
C15_LogWithoutDuplicates ==
    (last.op = "log" /\ last.err = "") =>
        \A i, j \in 1..Len(last.log) : last.log[i] = last.log[j] => i = j

(***************************************************************************)
(* The archive inside the working directory: the store keeps its files in  *)
(* the directory w/e, and the working directory w is snapshotted, checked  *)
(* out and merged.                                                         *)
(***************************************************************************)
MaxArchiveSnapshots == 6

ArchivePath == <<"w", "e">>

InitArchive ==
    /\ fs = [PopulatedFS EXCEPT ![ArchivePath] = Directory(DefaultPerm)]
    /\ umask = "000"
    /\ store = [EmptyStore EXCEPT !.ArchiveDir = ArchivePath]
    /\ graph = NoGraph
    /\ last = NoOp
    /\ seen = [p \in AllPaths |-> NoSeen]
    /\ returned = {}
    /\ bundle = NoBundle
    /\ store2 = EmptyStore

NextArchive ==
    \/ Chmod(SubDir)
    \/ WriteFile(Leaf, {"B"}, {MaxTime})
    \/ Snapshot(ArchivePath, MaxArchiveSnapshots)
    \/ Snapshot(Root, MaxArchiveSnapshots)
    \/ DoCheckout(Root, MaxArchiveSnapshots)
    \/ DoMerge(Root, MaxArchiveSnapshots)

SpecArchive == InitArchive /\ [][NextArchive]_vars

\* C16: snapshot.Current of the archive directory returns nil, no snapshot
\* is ever mapped to the archive directory, and the Tree of a snapshot that
\* Current takes of the directory holding the archive has no entry for it.
C16_ArchiveNotSnapshotted ==
    /\ store.paths[ArchivePath] = NilHash
    /\ (last.op = "current" /\ last.path = store.ArchiveDir) =>
          last.err = "" /\ last.h = NilHash /\ last.f = NilFile
    /\ (last.op = "current" /\ last.path = Dir(store.ArchiveDir) /\ IsDir(last.f)) =>
          BaseName(store.ArchiveDir)
              \notin DOMAIN ListDirectorySnapshotContents(store, last.h, last.f).tree

\* The directory holding the archive and a sub directory has been snapshotted.
C16_Witness ==
    /\ last.op = "current"
    /\ last.path = Dir(store.ArchiveDir)
    /\ fs[store.ArchiveDir].type = "dir"
    /\ IsDir(last.f)
    /\ DOMAIN ListDirectorySnapshotContents(store, last.h, last.f).tree = {"c"}

\* C17: after Checkout or Merge into a directory that holds the archive
\* directory, the archive directory is still there and the snapshot that was
\* checked out or merged can still be read from the archive.
C17_ArchiveSurvives ==
    (last.op \in {"checkout", "merge"} /\ IsPrefix(last.path, store.ArchiveDir)) =>
        /\ fs[store.ArchiveDir].type = "dir"
        /\ ReadSnapshot(store, IF last.op = "merge" THEN last.src ELSE last.h).err = ""

(***************************************************************************)
(* The snapshot command with additional parents: the user edits a file,    *)
(* takes snapshots of it and records manual merges, naming snapshots of    *)
(* the archive as additional parents.                                      *)
(***************************************************************************)
MaxCommandSnapshots == 4

\* snapshotCommand after its flags are parsed and resolved: [err, h, f, st]
snapshotCommand(st, fsys, path, additionalParents, nonce) ==
    Let([cur \in {Current(st, fsys, path, nonce)} |->
      IF cur.err # "" THEN [err |-> "current", h |-> NilHash, f |-> NilFile, st |-> cur.st]
      ELSE IF cur.h = NilHash \/ cur.f = NilFile
      THEN [err |-> "", h |-> NilHash, f |-> NilFile, st |-> cur.st]
      ELSE IF Len(additionalParents) > 0
      THEN Let([f \in {[cur.f EXCEPT !.Parents = @ \o additionalParents]} |->
           Let([s \in {StoreSnapshot(cur.st, path, f, nonce)} |->
             IF s.err # "" THEN [err |-> "update", h |-> NilHash, f |-> f, st |-> s.st]
             ELSE [err |-> "", h |-> s.h, f |-> f, st |-> s.st]])])
      ELSE [err |-> "", h |-> cur.h, f |-> cur.f, st |-> cur.st]])

DoSnapshotCommand(p, max) ==
    \E additionalParents \in {<<>>} \cup {<<h>> : h \in FileHashes(store)} :
        LET r == snapshotCommand(store, fs, p, additionalParents, NoNonce)
        IN  /\ SnapshotCount(store) < max
            /\ store' = r.st
            /\ last' = [op |-> "snapshot", path |-> p, err |-> r.err, h |-> r.h, f |-> r.f,
                        additionalParents |-> additionalParents,
                        prev |-> seen[p]]
            /\ seen' = [seen EXCEPT ![p] = [valid |-> r.err = "", h |-> r.h, f |-> r.f]]
            /\ UNCHANGED <<fs, umask, graph, returned, bundle, store2>>

NextCommand ==
    \/ WriteFile(Leaf, Data, Times)
    \/ DoSnapshotCommand(Leaf, MaxCommandSnapshots)

SpecCommand == Init /\ [][NextCommand]_vars

\* C18: a snapshot command with additional parents, for a path that has not
\* changed since its previous snapshot h_prev, returns a hash other than
\* h_prev whose File has h_prev and every additional parent among its parents.
C18_AdditionalParents ==
    (/\ last.op = "snapshot"
     /\ last.prev.valid /\ last.prev.h # NilHash
     /\ last.additionalParents # <<>>) =>
        /\ last.err = ""
        /\ last.h # last.prev.h
        /\ last.prev.h \in SeqRange(last.f.Parents)
        /\ SeqRange(last.additionalParents) \subseteq SeqRange(last.f.Parents)


(***************************************************************************)
(* Publishing: the identity index, the helper programs, Sign, Verify,     *)
(* Push and Pull                                                           *)
(***************************************************************************)
\* The hashes of the signature objects the helper programs print.
Signatures == {NewHash(Bytes("A")), NewHash(Bytes("B"))}

\* A mirror with a URL, and the nil mirror.
Mirror(url) == [URL |-> url, ReadOnly |-> FALSE]
\* A mirror added with the flag --read-only.
ReadOnlyMirror(url) == [URL |-> url, ReadOnly |-> TRUE]
NoMirror == [URL |-> "", ReadOnly |-> FALSE]

\* The configuration: "ida" has mirrors of its own and is served by the
\* additional mirrors as well.
Settings ==
    [Identities |->
        <<[Name |-> "ida",
           Mirrors |-> <<Mirror("m1")>>,
           PushMirrors |-> <<Mirror("m2")>>]>>,
     AdditionalMirrors |-> <<Mirror("m3")>>]

\* What one run of a helper program gives to runHelper: a failure (the
\* program exits with a non-zero status or prints no hash text), or the
\* hash it printed, which is nil when it printed nothing.
runHelper(failed, h) ==
    IF failed THEN [err |-> "helper", h |-> NilHash] ELSE [err |-> "", h |-> h]

HelperOutputs ==
    {runHelper(TRUE, NilHash)} \cup {runHelper(FALSE, h) : h \in Signatures \cup {NilHash}}

\* The verify helper prints the hash of the signed snapshot.
VerifyOutputs == {runHelper(TRUE, NilHash), runHelper(FALSE, NewHash(Bytes("")))}

LatestSignatureForIdentity(st, id) ==
    IF ~st.identities[id].exists THEN NilHash ELSE st.identities[id].h

\* Removing the file of a nil hash is reported as a failure exactly when the
\* removal succeeded; when there was no file, one with an empty text is
\* written.
UpdateSignatureForIdentity(st, id, h) ==
    IF h = NilHash /\ st.identities[id].exists
    THEN [err |-> "remove", st |-> [st EXCEPT !.identities[id] = NoIdentityFile]]
    ELSE [err |-> "", st |-> [st EXCEPT !.identities[id] = [exists |-> TRUE, h |-> h]]]

\* Sign: out is the run of the sign helper.
Sign(st, id, h, prevSignature, out) ==
    IF h = NilHash THEN [err |-> "", h |-> NilHash, st |-> st, ran |-> FALSE]
    ELSE IF out.err # "" THEN [err |-> "sign", h |-> NilHash, st |-> st, ran |-> FALSE]
    ELSE LET u == UpdateSignatureForIdentity(st, id, out.h)
         IN  IF u.err # ""
             THEN [err |-> "update", h |-> NilHash, st |-> u.st, ran |-> TRUE]
             ELSE [err |-> "", h |-> out.h, st |-> u.st, ran |-> TRUE]

\* Verify: out is the run of the verify helper; ran tells whether the helper
\* was asked at all (the nil signature is accepted without it).
Verify(id, signatureHash, out) ==
    IF signatureHash = NilHash THEN [err |-> "", h |-> NilHash, ran |-> FALSE]
    ELSE IF out.err # "" THEN [err |-> "verify", h |-> NilHash, ran |-> FALSE]
    ELSE [err |-> "", h |-> out.h, ran |-> TRUE]

\* ran tells whether the push helper was invoked.
pushTo(m, id, h, out) ==
    IF m = NoMirror \/ m.URL = "" THEN [err |-> "", h |-> h, ran |-> FALSE]
    ELSE IF out.err # "" THEN [err |-> "push", h |-> NilHash, ran |-> TRUE]
    ELSE [err |-> "", h |-> out.h, ran |-> TRUE]

PushMirrorsOf(settings, id) ==
    LET matching == SelectSeq(settings.Identities, LAMBDA s : s.Name = id)
    IN  IF matching = <<>> THEN <<>> ELSE Head(matching).PushMirrors

\* The loop of Push over the push mirrors. outs[i] holds the runs of the push
\* helper and of the verify helper for mirror i. The hash that pushTo
\* returns is bound to a variable of the loop body that hides the outer
\* variable pushed, so outerPushed is never assigned; the hash handed to
\* Verify is signature. accepted collects what the verify helper accepted,
\* invoked the mirrors the push helper was invoked for.
RECURSIVE PushLoop(_, _, _, _, _, _, _, _)
PushLoop(mirrors, outs, i, id, signature, outerPushed, accepted, invoked) ==
    IF i > Len(mirrors)
    THEN [err |-> "", pushed |-> outerPushed, accepted |-> accepted, invoked |-> invoked]
    ELSE LET pushed == pushTo(mirrors[i], id, outerPushed, outs[i].push)
             v == IF ~HashEqual(pushed.h, signature)
                  THEN Verify(id, signature, outs[i].verify)
                  ELSE [err |-> "", h |-> NilHash, ran |-> FALSE]
             acc == IF v.ran THEN accepted \cup {signature} ELSE accepted
             inv == IF pushed.ran THEN Append(invoked, mirrors[i]) ELSE invoked
         IN  IF v.err # ""
             THEN [err |-> "verify", pushed |-> NilHash, accepted |-> acc, invoked |-> inv]
             ELSE IF pushed.err # ""
             THEN [err |-> "push", pushed |-> NilHash, accepted |-> acc, invoked |-> inv]
             ELSE PushLoop(mirrors, outs, i + 1, id, signature, outerPushed, acc, inv)

Push(settings, st, id, signature, outs) ==
    LET l == PushLoop(PushMirrorsOf(settings, id), outs, 1, id, signature, signature,
                      {}, <<>>)
    IN  IF l.err # ""
        THEN [err |-> l.err, h |-> NilHash, st |-> st, accepted |-> l.accepted,
              invoked |-> l.invoked]
        ELSE IF ~HashEqual(l.pushed, signature)
        THEN LET u == UpdateSignatureForIdentity(st, id, l.pushed)
             IN  IF u.err # ""
                 THEN [err |-> "update", h |-> NilHash, st |-> u.st,
                       accepted |-> l.accepted, invoked |-> l.invoked]
                 ELSE [err |-> "", h |-> l.pushed, st |-> u.st,
                       accepted |-> l.accepted, invoked |-> l.invoked]
        ELSE [err |-> "", h |-> l.pushed, st |-> st, accepted |-> l.accepted,
              invoked |-> l.invoked]

pullFrom(m, id, prev, out) ==
    IF m = NoMirror \/ m.URL = "" THEN [err |-> "", h |-> prev]
    ELSE IF out.err # "" THEN [err |-> "pull", h |-> NilHash]
    ELSE [err |-> "", h |-> out.h]

\* A faulty variant of pullFromAndVerify: the hash of the mirror is taken
\* without asking the verify helper.
pullFromUnverified(m, id, prevSignature, prevSigned, out) ==
    LET p == pullFrom(m, id, prevSignature, out.pull)
    IN  IF p.err # ""
        THEN [err |-> "pull", signature |-> NilHash, signed |-> NilHash, accepted |-> {}]
        ELSE [err |-> "", signature |-> p.h, signed |-> prevSigned, accepted |-> {}]

pullFromAndVerify(m, id, prevSignature, prevSigned, out) ==
    LET p == pullFrom(m, id, prevSignature, out.pull)
        v == Verify(id, p.h, out.verify)
    IN  IF p.err # ""
        THEN [err |-> "pull", signature |-> NilHash, signed |-> NilHash, accepted |-> {}]
        ELSE IF p.h = NilHash
        THEN [err |-> "", signature |-> NilHash, signed |-> NilHash, accepted |-> {}]
        ELSE IF HashEqual(p.h, prevSignature)
        THEN [err |-> "", signature |-> prevSignature, signed |-> prevSigned, accepted |-> {}]
        ELSE IF v.err # ""
        THEN [err |-> "verify", signature |-> NilHash, signed |-> NilHash, accepted |-> {}]
        ELSE [err |-> "", signature |-> p.h, signed |-> v.h, accepted |-> {p.h}]

PullMirrorsOf(settings, id) ==
    LET matching == SelectSeq(settings.Identities, LAMBDA s : s.Name = id)
    IN  (IF matching = <<>> THEN <<>> ELSE Head(matching).Mirrors)
        \o settings.AdditionalMirrors

\* The two loops of Pull, over the mirrors of the identity and then over the
\* additional mirrors.
RECURSIVE PullLoop(_, _, _, _, _, _, _)
PullLoop(mirrors, outs, i, id, signature, signed, accepted) ==
    IF i > Len(mirrors)
    THEN [err |-> "", signature |-> signature, signed |-> signed, accepted |-> accepted]
    ELSE LET r == pullFromAndVerify(mirrors[i], id, signature, signed, outs[i])
         IN  IF r.err # ""
             THEN [err |-> r.err, signature |-> NilHash, signed |-> NilHash,
                   accepted |-> accepted]
             ELSE PullLoop(mirrors, outs, i + 1, id, r.signature, r.signed,
                           accepted \cup r.accepted)

\* Pull: first is the run of the verify helper on the recorded signature.
Pull(settings, st, id, first, outs) ==
    LET latest == LatestSignatureForIdentity(st, id)
        v == Verify(id, latest, first)
        acc == IF v.ran THEN {latest} ELSE {}
        l == PullLoop(PullMirrorsOf(settings, id), outs, 1, id, latest, v.h, acc)
        u == UpdateSignatureForIdentity(st, id, l.signature)
    IN  IF v.err # ""
        THEN [err |-> "verify", signature |-> NilHash, signed |-> NilHash, st |-> st,
              accepted |-> {}]
        ELSE IF l.err # ""
        THEN [err |-> l.err, signature |-> NilHash, signed |-> NilHash, st |-> st,
              accepted |-> l.accepted]
        ELSE IF l.signature = NilHash
        THEN [err |-> "", signature |-> NilHash, signed |-> NilHash, st |-> st,
              accepted |-> l.accepted]
        ELSE IF u.err # ""
        THEN [err |-> "update", signature |-> NilHash, signed |-> NilHash, st |-> u.st,
              accepted |-> l.accepted]
        ELSE [err |-> "", signature |-> l.signature, signed |-> l.signed, st |-> u.st,
              accepted |-> l.accepted]

(***************************************************************************)
(* Specification SpecPublish: Sign, Push and Pull with helper programs    *)
(* that may print any signature or fail. returned records what the        *)
(* helpers did: [kind |-> "sign", id, h] for a hash printed by the sign   *)
(* helper, [kind |-> "verify", id, h] for a signature the verify helper   *)
(* accepted.                                                              *)
(***************************************************************************)
\* The snapshots offered for signing.
Signed == {NilHash, NewHash(Bytes(""))}

MirrorRuns == [push : HelperOutputs, verify : VerifyOutputs]
PullRuns == [pull : HelperOutputs, verify : VerifyOutputs]

SeqsOf(S, n) == [1..n -> S]

DoSign ==
    \E id \in Identities, h \in Signed, out \in HelperOutputs :
        LET r == Sign(store, id, h, LatestSignatureForIdentity(store, id), out)
        IN  /\ store' = r.st
            /\ returned' = returned \cup
                   (IF r.ran THEN {[kind |-> "sign", id |-> id, h |-> out.h]} ELSE {})
            /\ last' = [op |-> "sign", id |-> id, err |-> r.err, h |-> r.h]
            /\ UNCHANGED <<fs, umask, graph, seen, bundle, store2>>

DoPushWith(settings) ==
    \E id \in Identities, signature \in Signatures \cup {NilHash} :
      \E outs \in SeqsOf(MirrorRuns, Len(PushMirrorsOf(settings, id))) :
        LET r == Push(settings, store, id, signature, outs)
        IN  /\ store' = r.st
            /\ returned' = returned \cup
                   {[kind |-> "verify", id |-> id, h |-> h] : h \in r.accepted}
            /\ last' = [op |-> "push", id |-> id, signature |-> signature,
                        err |-> r.err, h |-> r.h, invoked |-> r.invoked,
                        pushes |-> [i \in DOMAIN outs |-> outs[i].push],
                        accepts |-> \A i \in DOMAIN outs : outs[i].verify.err = ""]
            /\ UNCHANGED <<fs, umask, graph, seen, bundle, store2>>

DoPush == DoPushWith(Settings)

DoPull ==
    \E id \in Identities, first \in VerifyOutputs :
      \E outs \in SeqsOf(PullRuns, Len(PullMirrorsOf(Settings, id))) :
        LET r == Pull(Settings, store, id, first, outs)
        IN  /\ store' = r.st
            /\ returned' = returned \cup
                   {[kind |-> "verify", id |-> id, h |-> h] : h \in r.accepted}
            /\ last' = [op |-> "pull", id |-> id, err |-> r.err,
                        signature |-> r.signature,
                        before |-> LatestSignatureForIdentity(store, id)]
            /\ UNCHANGED <<fs, umask, graph, seen, bundle, store2>>

NextPublish == DoSign \/ DoPush \/ DoPull

SpecPublish == Init /\ [][NextPublish]_vars

\* C19: the signature recorded in the identity index for an identity is
\* absent (no file, or a file without a hash), or a hash the sign helper
\* returned for that identity, or a hash the verify helper accepted for that
\* identity; so a hash of a mirror is recorded only after its Verify.
C19_RecordedSignaturesVerified ==
    \A id \in Identities :
        LET h == LatestSignatureForIdentity(store, id)
        IN  \/ h = NilHash
            \/ [kind |-> "sign", id |-> id, h |-> h] \in returned
            \/ [kind |-> "verify", id |-> id, h |-> h] \in returned

\* A Pull recorded a signature of a mirror that differs from the one recorded
\* before and that the sign helper never returned.
C19_Witness ==
    /\ last.op = "pull" /\ last.err = ""
    /\ last.signature # NilHash /\ last.signature # last.before
    /\ LatestSignatureForIdentity(store, last.id) = last.signature
    /\ [kind |-> "sign", id |-> last.id, h |-> last.signature] \notin returned
    /\ [kind |-> "verify", id |-> last.id, h |-> last.signature] \in returned

\* C20: when every helper of a Push succeeds, the push helper of the last
\* mirror returns a hash different from the signature pushed, and the verify
\* helper accepts, Push returns the hash the mirror returned and the
\* identity index holds it.
C20_PushRecordsReturnedHash ==
    (/\ last.op = "push"
     /\ last.pushes # <<>>
     /\ \A i \in DOMAIN last.pushes : last.pushes[i].err = ""
     /\ last.accepts
     /\ last.signature # NilHash
     /\ last.pushes[Len(last.pushes)].h # NilHash
     /\ ~HashEqual(last.pushes[Len(last.pushes)].h, last.signature))
    => /\ last.err = ""
       /\ HashEqual(last.h, last.pushes[Len(last.pushes)].h)
       /\ HashEqual(LatestSignatureForIdentity(store, last.id),
                    last.pushes[Len(last.pushes)].h)


(***************************************************************************)
(* Specification SpecReadOnly: Sign and Push with a configuration whose   *)
(* mirrors for the identity include one marked read-only.                 *)
(***************************************************************************)
ReadOnlySettings ==
    [Identities |->
        <<[Name |-> "ida",
           Mirrors |-> <<ReadOnlyMirror("m4")>>,
           PushMirrors |-> <<ReadOnlyMirror("m4")>>]>>,
     AdditionalMirrors |-> <<>>]

NextReadOnly == DoSign \/ DoPushWith(ReadOnlySettings)

SpecReadOnly == Init /\ [][NextReadOnly]_vars

DoUpdateSignature ==
    \E id \in Identities, h \in Signatures \cup {NilHash} :
        LET u == UpdateSignatureForIdentity(store, id, h)
        IN  /\ store' = u.st
            /\ last' = [op |-> "update", id |-> id, h |-> h, err |-> u.err,
                        before |-> store.identities[id]]
            /\ UNCHANGED <<fs, umask, graph, seen, returned, bundle, store2>>

DoLatestSignature ==
    \E id \in Identities :
        /\ last' = [op |-> "latest", id |-> id,
                    h |-> LatestSignatureForIdentity(store, id)]
        /\ UNCHANGED <<fs, umask, store, graph, seen, returned, bundle, store2>>

NextIdentity == DoUpdateSignature \/ DoLatestSignature \/ DoSign

SpecIdentity == Init /\ [][NextIdentity]_vars

\* C22: UpdateSignatureForIdentity(id, nil) succeeds, and
\* LatestSignatureForIdentity(id) is nil afterwards, whether or not there
\* was an entry before the call.
C22_NilRemovesEntry ==
    (last.op = "update" /\ last.h = NilHash)
    => /\ last.err = ""
       /\ LatestSignatureForIdentity(store, last.id) = NilHash


(***************************************************************************)
(* Specification SpecCascade: directories, files and links that replace   *)
(* each other at the same paths, with snapshots of every path; each       *)
(* snapshot records the path mappings it started from.                    *)
(***************************************************************************)
MaxCascadeSnapshots == 4

NextCascade ==
    \/ WriteFile(Leaf, {"A"}, {0})
    \/ Mkdir(SubDir)
    \/ Symlink(SubDir)
    \/ Remove(Leaf)
    \/ Remove(SubDir)
    \/ \E p \in {Leaf, SubDir, Root} :
          SnapshotRecording(p, MaxCascadeSnapshots, Before(store))

SpecCascade == Init /\ [][NextCascade]_vars

\* A snapshot of a file or link has just been stored at last.path.
StoredNonDirectory ==
    /\ last.op = "current" /\ last.err = ""
    /\ last.f # NilFile /\ ~IsDir(last.f)

\* The paths that lost their mapping in the last snapshot.
Unmapped ==
    {q \in AllPaths : last.before.paths[q] # NilHash /\ store.paths[q] = NilHash}

C25_DroppedChildrenUnmapped ==
    (last.op = "current" /\ last.err = "" /\ IsDir(last.f)) =>
        \A c \in ChildNames(last.before.mappedPaths, last.path) :
            c \notin DOMAIN MappedTree(store, last.path) =>
                \A q \in Under(Join(last.path, c)) : store.paths[q] = NilHash


(***************************************************************************)
(* Specification SpecFile: File records of the data model, serialized and *)
(* parsed back.                                                            *)
(***************************************************************************)
MaxParents == 2

\* The mode lines, contents (nil for a broken link) and parents (non-nil)
\* of the records.
FileModes == {DirMode(p) : p \in Perms} \cup {LinkMode(p) : p \in Perms}
                 \cup {RegMode(p) : p \in Perms}
FileContents == {NilHash, NewHash(Bytes("A")), NewHash(Bytes("B"))}
FileParents ==
    UNION {[1..n -> {NewHash(Bytes("A")), NewHash(Bytes("B"))}] : n \in 0..MaxParents}
Files ==
    {f \in [Mode : FileModes, Contents : FileContents, Parents : FileParents] :
        f.Contents = NilHash => IsLink(f)}

InitFile ==
    /\ last \in {[op |-> "file", f |-> f] : f \in Files}
    /\ fs = EmptyFS
    /\ umask = "000"
    /\ store = EmptyStore
    /\ graph = NoGraph
    /\ seen = [p \in AllPaths |-> NoSeen]
    /\ returned = {}
    /\ bundle = NoBundle
    /\ store2 = EmptyStore

DoRoundtrip ==
    /\ last.op = "file"
    /\ last' = [op |-> "roundtrip", f |-> last.f,
                encoded |-> FileString(last.f),
                parsed |-> ParseFile(FileString(last.f))]
    /\ UNCHANGED <<fs, umask, store, graph, seen, returned, bundle, store2>>

NextFile == DoRoundtrip

SpecFile == InitFile /\ [][NextFile]_vars

\* C24: for every File record of the data model, with any mode line, with
\* contents that may be nil for a broken link and with non-nil parents,
\* ParseFile of the record's String succeeds and gives the record back.
C24_FileRoundtrip ==
    last.op = "roundtrip" => (last.parsed.ok /\ last.parsed.file = last.f)


(***************************************************************************)
(* Specification SpecAncestor: callers ask whether one snapshot of a      *)
(* history is an ancestor of another.                                     *)
(***************************************************************************)
DoIsAncestor ==
    \E x \in Nodes \cup {0}, y \in Nodes :
        LET base == IF x = 0 THEN NilHash ELSE NodeHash(graph, x)
            r == IsAncestor(store, base, NodeHash(graph, y))
        IN  /\ last.op = "none"
            /\ last' = [op |-> "isancestor", x |-> x, y |-> y, err |-> r.err, ok |-> r.ok]
            /\ UNCHANGED <<fs, umask, store, graph, seen, returned, bundle, store2>>

NextAncestor == DoIsAncestor

SpecAncestor == InitBase /\ [][NextAncestor]_vars

\* C26: IsAncestor(base, h) reports an ancestor exactly when base is nil,
\* base equals h, or base is an ancestor of one of the parents of h.
C26_AncestryRule ==
    last.op = "isancestor" =>
        /\ last.err = ""
        /\ last.ok <=> (\/ last.x = 0
                        \/ NodeHash(graph, last.x) \in AncestorHashes(graph, last.y))

\* C27: for non-nil x and y whose histories are in the archive, Base
\* returns a non-nil hash whenever some snapshot is an ancestor of both; it
\* returns nil only if they have no common ancestor other than nil.
C27_BaseFindsCommonAncestor ==
    (last.op = "base" /\ last.x # 0 /\ last.y # 0
       /\ CommonAncestors(graph, last.x, last.y) # {NilHash}) =>
        /\ last.err = ""
        /\ last.h # NilHash

\* Two snapshots, neither an ancestor of the other, whose only common
\* ancestor is not a parent of the first.
C27_Witness ==
    /\ last.op = "base" /\ last.x # 0 /\ last.y # 0
    /\ last.x \notin AncestorNodes(graph, last.y)
    /\ last.y \notin AncestorNodes(graph, last.x)
    /\ Cardinality(CommonAncestors(graph, last.x, last.y)) = 2
    /\ last.h # NilHash
    /\ \A k \in 1..Len(graph[last.x]) : NodeHash(graph, graph[last.x][k]) # last.h


(***************************************************************************)
(* Specification SpecThreeWay: three snapshots of a directory with the    *)
(* children c and e, a base and two snapshots made from it, are merged.   *)
(* A child is absent or one of three snapshots of a regular file: a first *)
(* version and two versions made from it.                                 *)
(***************************************************************************)
FirstVersion ==
    [Mode |-> RegMode(DefaultPerm), Contents |-> NewHash(Bytes("A")), Parents |-> <<>>]
LeftVersion ==
    [Mode |-> RegMode(DefaultPerm), Contents |-> NewHash(Bytes("B")),
     Parents |-> <<NewHash(FileString(FirstVersion))>>]
RightVersion ==
    [Mode |-> RegMode(DefaultPerm), Contents |-> NewHash(Bytes("C")),
     Parents |-> <<NewHash(FileString(FirstVersion))>>]
Versions == {FirstVersion, LeftVersion, RightVersion}

\* The children of a directory: nil stands for an absent child.
ChildHashes == {NilHash} \cup {NewHash(FileString(f)) : f \in Versions}
MergeNames == {"c", "e"}
ChildLists == [MergeNames -> ChildHashes]

TreeOf(children) ==
    [n \in {m \in MergeNames : children[m] # NilHash} |-> children[n]]

DirFile(children, parents) ==
    [Mode |-> DirMode(DefaultPerm), Contents |-> NewHash(TreeString(TreeOf(children))),
     Parents |-> parents]

BaseDir(t) == DirFile(t.base, <<>>)
SrcDir(t) == DirFile(t.src, <<NewHash(FileString(BaseDir(t)))>>)
DestDir(t) == DirFile(t.dest, <<NewHash(FileString(BaseDir(t)))>>)

\* The archive holding the three directory snapshots, their trees and the
\* snapshots of the files.
ThreeWayStore(t) ==
    [EmptyStore EXCEPT !.objects =
        {[name |-> objectName(NewHash(b), FALSE), bytes |-> b] :
            b \in {FileString(f) : f \in Versions \cup {BaseDir(t), SrcDir(t), DestDir(t)}}
                  \cup {TreeString(TreeOf(c)) : c \in {t.base, t.src, t.dest}}}]

InitThreeWay ==
    /\ last \in {[op |-> "trees", base |-> b, src |-> s, dest |-> d] :
                    b \in ChildLists, s \in ChildLists, d \in ChildLists}
    /\ store = ThreeWayStore(last)
    /\ fs = EmptyFS
    /\ umask = "000"
    /\ graph = NoGraph
    /\ seen = [p \in AllPaths |-> NoSeen]
    /\ returned = {}
    /\ bundle = NoBundle
    /\ store2 = EmptyStore

DoMergeWithBase ==
    /\ last.op = "trees"
    /\ LET r == mergeWithBase(store, Root, NewHash(FileString(BaseDir(last))),
                              NewHash(FileString(SrcDir(last))),
                              NewHash(FileString(DestDir(last))), FALSE, NoNonce)
           f == ReadSnapshot(r.st, r.h).f
           l == ListDirectorySnapshotContents(r.st, r.h, f)
       IN  /\ store' = r.st
           /\ last' = [op |-> "mergewithbase", base |-> last.base, src |-> last.src,
                       dest |-> last.dest, err |-> r.err, h |-> r.h,
                       conflicts |-> r.conflicts, visited |-> r.visited,
                       merged |-> IF r.h # NilHash /\ l.err = "" THEN l.tree
                                  ELSE EmptyTree]
    /\ UNCHANGED <<fs, umask, graph, seen, returned, bundle, store2>>

NextThreeWay == DoMergeWithBase

SpecThreeWay == InitThreeWay /\ [][NextThreeWay]_vars

\* The directories differ and are merged child by child.
MergedByChildren ==
    /\ last.op = "mergewithbase"
    /\ last.src # last.dest /\ last.src # last.base /\ last.dest # last.base

\* At most one side of the child n differs from the base.
Trivial(n) ==
    \/ last.src[n] = last.base[n]
    \/ last.dest[n] = last.base[n]
    \/ last.src[n] = last.dest[n]

\* The side the merge of a trivial child results in.
TrivialResult(n) ==
    IF last.src[n] = last.base[n] THEN last.dest[n] ELSE last.src[n]

\* C28: in the merge of a subpath where at most one side differs from the
\* base, no conflict is reported for the subpath and the result is that
\* side: the destination if the source equals the base, the source if the
\* destination equals the base, the common value if both are equal; also
\* when that side is nil.
C28_OneSideChanged ==
    MergedByChildren =>
        /\ \A n \in MergeNames :
              Trivial(n) =>
                  /\ Join(Root, n) \notin last.conflicts
                  /\ last.err = "" => TreeGet(last.merged, n) = TrivialResult(n)
        /\ (\A n \in MergeNames : Trivial(n)) => last.err = ""

\* A child deleted on one side and untouched on the other is dropped from
\* the merged directory, next to a child changed on one side only.
C28_Witness ==
    /\ MergedByChildren
    /\ last.err = ""
    /\ last.base["c"] # NilHash /\ last.src["c"] = NilHash
    /\ last.dest["c"] = last.base["c"]
    /\ "c" \notin DOMAIN last.merged
    /\ last.src["e"] = last.base["e"] /\ last.dest["e"] # last.base["e"]
    /\ TreeGet(last.merged, "e") = last.dest["e"]

\* The merge reports a conflict for the child n and returns no snapshot.
ConflictAt(n) ==
    /\ last.err = "conflict"
    /\ last.h = NilHash
    /\ Join(Root, n) \in last.conflicts

\* C29 as stated: a subpath that is nil on one side and differs from the
\* base on the other side is reported as a conflict, and no merged snapshot
\* is produced.
C29_NilAgainstModified ==
    MergedByChildren =>
        \A n \in MergeNames :
            (\/ last.src[n] = NilHash /\ last.dest[n] # last.base[n]
             \/ last.dest[n] = NilHash /\ last.src[n] # last.base[n])
            => ConflictAt(n)

\* C29 amended: a subpath of the base that was deleted on one side (the base
\* is not nil) and that is neither deleted nor left as in the base on the
\* other side is reported as a conflict, and no merged snapshot is produced.
C29_DeletedAgainstModified ==
    MergedByChildren =>
        \A n \in MergeNames :
            (/\ last.base[n] # NilHash
             /\ \/ last.src[n] = NilHash /\ last.dest[n] \notin {NilHash, last.base[n]}
                \/ last.dest[n] = NilHash /\ last.src[n] \notin {NilHash, last.base[n]})
            => ConflictAt(n)

\* A child deleted in the source and changed in the destination.
C29_Witness ==
    /\ MergedByChildren
    /\ last.base["c"] # NilHash /\ last.src["c"] = NilHash
    /\ last.dest["c"] \notin {NilHash, last.base["c"]}
    /\ Trivial("e")
    /\ ConflictAt("c")
    /\ Join(Root, "e") \notin last.conflicts

\* The children whose merge fails.
FailingChildren ==
    {n \in MergeNames :
        mergeWithBase(store, Join(Root, n), last.base[n], last.src[n], last.dest[n],
                      FALSE, NoNonce).err # ""}

\* C30: when the merge of a directory has conflicts in several children,
\* every child is visited, the error names every conflicting subpath, and no
\* merged directory snapshot is returned.
C30_AllConflictsReported ==
    (MergedByChildren /\ Cardinality(FailingChildren) > 1) =>
        /\ last.err = "conflict"
        /\ last.h = NilHash
        /\ \A n \in MergeNames :
              (last.src[n] # NilHash \/ last.dest[n] # NilHash)
              => Join(Root, n) \in last.visited
        /\ last.conflicts = {Join(Root, n) : n \in FailingChildren}

\* Both children are in conflict, each in its own way.
C30_Witness ==
    /\ MergedByChildren
    /\ FailingChildren = MergeNames
    /\ last.src["c"] = NilHash
    /\ last.src["e"] # NilHash /\ last.dest["e"] # NilHash
    /\ last.conflicts = {Join(Root, "c"), Join(Root, "e")}


\* C40: the merge base is symmetric: for all snapshots x and y, the merge
\* base of y and x is computed without error exactly when that of x and y
\* is, and it is the same snapshot.
C40_BaseSymmetric ==
    last.op = "base" =>
        /\ Base(store, last.rhs, last.lhs).err = last.err
        /\ Base(store, last.rhs, last.lhs).h = last.h


\* C39: when the identity index holds a signature for an identity before
\* Pull and no helper invocation fails (Pull returns no error), Pull returns
\* a signature that is not nil and the index still holds a signature for the
\* identity.
C39_PullKeepsSignature ==
    (last.op = "pull" /\ last.before # NilHash /\ last.err = "") =>
        /\ last.signature # NilHash
        /\ LatestSignatureForIdentity(store, last.id) # NilHash


(***************************************************************************)
(* Specification SpecHelper: one child of the three directories is merged *)
(* on its own, with a merge helper installed.  helper is what a run of    *)
(* the helper program would give: its exit status and its standard        *)
(* output.                                                                *)
(***************************************************************************)
MergeHelperRuns == {[status |-> 0, out |-> Bytes("M")], [status |-> 1, out |-> Bytes("")]}

DoMergeChild ==
    \E n \in MergeNames, helper \in MergeHelperRuns :
        LET r == mergeWithBase(store, Join(Root, n), last.base[n], last.src[n],
                               last.dest[n], FALSE, NoNonce)
        IN  /\ last.op = "trees"
            /\ store' = r.st
            /\ last' = [op |-> "mergechild", childBase |-> last.base[n],
                        childSrc |-> last.src[n], childDest |-> last.dest[n],
                        helper |-> helper, err |-> r.err, h |-> r.h]
            /\ UNCHANGED <<fs, umask, graph, seen, returned, bundle, store2>>

NextHelper == DoMergeChild

SpecHelper == InitThreeWay /\ [][NextHelper]_vars

\* Both sides are regular files made from the base that differ from it and
\* from each other.
TwoModifiedRegularFiles ==
    /\ last.op = "mergechild"
    /\ last.childBase = NewHash(FileString(FirstVersion))
    /\ {last.childSrc, last.childDest} = {NewHash(FileString(LeftVersion)),
                                NewHash(FileString(RightVersion))}

\* C31: when both sides of a subpath are regular files that differ from the
\* base and from each other and the base is an ancestor of both, and the
\* merge helper exits with status 0, the merge returns without error the
\* hash of a stored File whose contents are the standard output of the
\* helper and whose parents are the source and the destination.
C31_HelperMergesRegularFiles ==
    (TwoModifiedRegularFiles /\ last.helper.status = 0) =>
        /\ last.err = ""
        /\ ReadSnapshot(store, last.h).err = ""
        /\ ReadSnapshot(store, last.h).f.Contents = NewHash(last.helper.out)
        /\ ReadSnapshot(store, last.h).f.Parents = <<last.childSrc, last.childDest>>


(***************************************************************************)
(* Specification SpecHistory: the working directory w is snapshotted,     *)
(* edited, set back to an earlier snapshot and edited again, and          *)
(* snapshots of it are merged into it.                                    *)
(***************************************************************************)
MaxHistorySnapshots == 7

NextHistory ==
    \/ WriteFile(Leaf, {"B"}, {0})
    \/ Mkdir(OtherDir)
    \/ Snapshot(Root, MaxHistorySnapshots)
    \/ DoCheckout(Root, MaxHistorySnapshots)
    \/ DoMerge(Root, MaxHistorySnapshots)

SpecHistory == Init /\ [][NextHistory]_vars

\* C38: after a successful Merge(src, dest) the snapshot that dest maps to
\* has src among its ancestors, and also the snapshot Merge took of dest
\* before merging if dest existed.
C38_MergeKeepsHistories ==
    (last.op = "merge" /\ last.err = "") =>
        /\ FindSnapshot(store, last.path).err = ""
        /\ last.src \in Ancestors(store, FindSnapshot(store, last.path).h)
        /\ last.existed =>
              last.destPrev \in Ancestors(store, FindSnapshot(store, last.path).h)

\* Source and destination were both changed since their merge base: the
\* snapshot that dest maps to is a new one with the two of them as parents.
C38_Witness ==
    /\ last.op = "merge" /\ last.err = ""
    /\ last.existed
    /\ last.src # last.destPrev
    /\ FindSnapshot(store, last.path).h \notin {last.src, last.destPrev}
    /\ FindSnapshot(store, last.path).f.Parents = <<last.src, last.destPrev>>


(***************************************************************************)
(* Specification SpecCache: the regular file w/c/g is rewritten, removed, *)
(* snapshotted (on its own and with its directory), checked out and       *)
(* merged.  Every write of the file, by the user or by a checkout, gives  *)
(* it a modification time later than every time the file or its cache     *)
(* entry had before, so the stat data of the file tell its contents.      *)
(***************************************************************************)
MaxCacheTime == 3
MaxCacheSnapshots == 4

\* The time a write that happens now stamps on the file.
Now(st, fsys) ==
    1 + (IF st.cache[Leaf].ModTime > fsys[Leaf].mtime THEN st.cache[Leaf].ModTime
         ELSE fsys[Leaf].mtime)

\* The hashes of the snapshots of regular files in the archive.
FileSnapshotHashes(st) ==
    {o.name.hash : o \in {x \in st.objects :
        /\ x.bytes # <<>> /\ ParseFile(x.bytes).ok
        /\ ~IsDir(ParseFile(x.bytes).file) /\ ~IsLink(ParseFile(x.bytes).file)}}

\* What snapshot.Current of the file is about to do: cached tells whether
\* readCached answers, entry whether the file has a cache entry, bytes is
\* the hash of the bytes in the file.
CacheBefore(st, fsys) ==
    [cached |-> fsys[Leaf].type = "file" /\ readCached(st, Leaf, FileInfo(fsys[Leaf])).ok,
     entry |-> st.cache[Leaf] # NoCache,
     bytes |-> NewHash(Bytes(fsys[Leaf].data))]

CacheCheckout ==
    \E h \in FileSnapshotHashes(store) :
        LET r == Checkout(store, fs, h, Leaf,
                          [umask |-> umask, time |-> Now(store, fs), nonce |-> NoNonce])
        IN  /\ Now(store, fs) <= MaxCacheTime
            /\ store' = r.st
            /\ fs' = r.fs
            /\ last' = [op |-> "checkout", path |-> Leaf, h |-> h, err |-> r.err]
            /\ seen' = [q \in AllPaths |-> NoSeen]
            /\ UNCHANGED <<umask, graph, returned, bundle, store2>>

\* Merge starts with snapshot.Current of the destination; f is the File it
\* returns.
CacheMerge ==
    \E src \in FileSnapshotHashes(store) :
        LET r == Merge(store, fs, src, Leaf,
                       [umask |-> umask, time |-> Now(store, fs), nonce |-> NoNonce])
        IN  /\ Now(store, fs) <= MaxCacheTime
            /\ SnapshotCount(store) < MaxCacheSnapshots
            /\ store' = r.st
            /\ fs' = r.fs
            /\ last' = [op |-> "merge", path |-> Leaf, src |-> src, err |-> r.err,
                        f |-> Current(store, fs, Leaf, NoNonce).f,
                        before |-> CacheBefore(store, fs)]
            /\ seen' = [q \in AllPaths |-> NoSeen]
            /\ UNCHANGED <<umask, graph, returned, bundle, store2>>

CacheWrite ==
    /\ Now(store, fs) <= MaxCacheTime
    /\ WriteFile(Leaf, Data, {Now(store, fs)})

NextCache ==
    \/ CacheWrite
    \/ Remove(Leaf)
    \/ SnapshotRecording(Leaf, MaxCacheSnapshots, CacheBefore(store, fs))
    \/ SnapshotRecording(SubDir, MaxCacheSnapshots, CacheBefore(store, fs))
    \/ CacheCheckout
    \/ CacheMerge

SpecCache == Init /\ [][NextCache]_vars

\* C34: after a successful snapshot.Current of a regular file that was not
\* answered from the cache, the cache entry of the path holds the size,
\* mode, modification time and inode of the file: PathInfoMatchesCache
\* holds for the same file info; also when the path had a cache entry
\* before.
C34_CacheRewritten ==
    (/\ last.op = "current" /\ last.path = Leaf /\ last.err = ""
     /\ fs[Leaf].type = "file"
     /\ ~last.before.cached) =>
        PathInfoMatchesCache(store, Leaf, FileInfo(fs[Leaf]))

\* The File that the last snapshot.Current of the file returned.
ReturnedForLeaf ==
    IF last.path = Leaf THEN last.f
    ELSE ReadSnapshot(store, TreeGet(ListDirectorySnapshotContents(store, last.h, last.f).tree,
                                     "g")).f

MaxRaceSnapshots == 5

\* snapshot.Current of the directory p; gone is the entry removed after the
\* directory was read and before the entry is looked up.
DoRacingCurrent(p) ==
    \E n \in Names :
        LET gone == Join(p, n)
            r == snapshotDirectoryEntries(store, RemoveAll(fs, gone), p, FileInfo(fs[p]),
                                          ReadDir(fs, p), NoNonce)
        IN  /\ SnapshotCount(store) < MaxRaceSnapshots
            /\ fs[p].type = "dir"
            /\ ~Exclude(store, p)
            /\ Exists(fs, gone)
            /\ store' = r.st
            /\ fs' = RemoveAll(fs, gone)
            /\ last' = [op |-> "racing", path |-> p, gone |-> n, listed |-> ReadDir(fs, p),
                        err |-> r.err, h |-> r.h, f |-> r.f]
            /\ seen' = [q \in AllPaths |-> NoSeen]
            /\ UNCHANGED <<umask, graph, returned, bundle, store2>>

NextRace ==
    \/ WriteFile(Leaf, {"B"}, {0})
    \/ Mkdir(OtherDir)
    \/ Symlink(OtherDir)
    \/ Snapshot(Root, MaxRaceSnapshots)
    \/ DoRacingCurrent(Root)
    \/ DoRacingCurrent(SubDir)

SpecRace == Init /\ [][NextRace]_vars

\* C35: if an entry of a directory disappears after the directory was
\* listed and before snapshot.Current looks the entry up, snapshot.Current
\* of the directory succeeds and the Tree of the snapshot has no entry for
\* it.
C35_VanishedChildSkipped ==
    last.op = "racing" =>
        /\ last.err = ""
        /\ last.h # NilHash
        /\ ListDirectorySnapshotContents(store, last.h, last.f).err = ""
        /\ last.gone \notin DOMAIN ListDirectorySnapshotContents(store, last.h, last.f).tree

\* One of two listed entries disappears; the other one is in the Tree.
C35_Witness ==
    /\ last.op = "racing"
    /\ Len(last.listed) = 2
    /\ last.err = ""
    /\ Cardinality(DOMAIN ListDirectorySnapshotContents(store, last.h, last.f).tree) = 1
    /\ last.gone \notin DOMAIN ListDirectorySnapshotContents(store, last.h, last.f).tree


(***************************************************************************)
(* Specification SpecCancel: snapshot.Current is called with a context    *)
(* that may have been cancelled before the call.  The context is handed   *)
(* down from snapshot.Current to snapshotDirectory and to the storage     *)
(* without being read, so it is no parameter of the operators; the action *)
(* records it beside what the call did.                                   *)
(***************************************************************************)
MaxCancelSnapshots == 4

\* started: the entries under p that the call took a snapshot of.
DoCurrentWithContext(p) ==
    \E cancelled \in BOOLEAN :
        LET r == Current(store, fs, p, NoNonce)
        IN  /\ SnapshotCount(store) < MaxCancelSnapshots
            /\ store' = r.st
            /\ last' = [op |-> "ctxcurrent", path |-> p, cancelled |-> cancelled,
                        err |-> r.err, h |-> r.h,
                        started |-> {q \in Under(p) \ {p} :
                                        Exists(fs, q) /\ r.st.paths[q] # store.paths[q]}]
            /\ seen' = [q \in AllPaths |-> NoSeen]
            /\ UNCHANGED <<fs, umask, graph, returned, bundle, store2>>

NextCancel ==
    \/ WriteFile(Leaf, Data, Times)
    \/ Mkdir(OtherDir)
    \/ Remove(Leaf)
    \/ DoCurrentWithContext(Root)
    \/ DoCurrentWithContext(SubDir)

SpecCancel == Init /\ [][NextCancel]_vars

\* C36: once the context is cancelled, snapshot.Current starts no further
\* child unit of work: called on a directory with a cancelled context it
\* takes no snapshot of an entry of the directory and returns an error.
C36_CancelledStopsWork ==
    (last.op = "ctxcurrent" /\ last.cancelled /\ fs[last.path].type = "dir") =>
        /\ last.started = {}
        /\ last.err # ""


(***************************************************************************)
(* Specification SpecFailure: snapshots are taken in an archive in which  *)
(* the storage location of one object cannot be written, so that          *)
(* StoreObject fails for that object.                                     *)
(***************************************************************************)
MaxFailureSnapshots == 4

\* The names of the objects that a snapshot of the populated directory w/c
\* stores: the contents and the File of w/c/g, the Tree and the File of w/c.
FirstObjectNames ==
    {o.name : o \in Current(EmptyStore, PopulatedFS, SubDir, NoNonce).st.objects}

InitFailure ==
    /\ fs = PopulatedFS
    /\ umask = "000"
    /\ store \in {[EmptyStore EXCEPT !.blocked = B] :
                     B \in {{}} \cup {{n} : n \in FirstObjectNames}}
    /\ graph = NoGraph
    /\ last = NoOp
    /\ seen = [p \in AllPaths |-> NoSeen]
    /\ returned = {}
    /\ bundle = NoBundle
    /\ store2 = EmptyStore

\* What a snapshot is about to meet: failed tells whether StoreObject fails
\* for an object the call stores (the call would store an object whose
\* location is blocked if none were), paths holds the path mappings before
\* the call.
FailureBefore(st, fsys, p) ==
    [failed |-> \E o \in Current([st EXCEPT !.blocked = {}], fsys, p, NoNonce).st.objects :
                    o.name \in st.blocked,
     paths |-> st.paths]

NextFailure ==
    \/ WriteFile(Leaf, Data, Times)
    \/ SnapshotRecording(Leaf, MaxFailureSnapshots, FailureBefore(store, fs, Leaf))
    \/ SnapshotRecording(SubDir, MaxFailureSnapshots, FailureBefore(store, fs, SubDir))

SpecFailure == InitFailure /\ [][NextFailure]_vars

\* C33: if a store operation fails while snapshot.Current takes the
\* snapshot of a directory, snapshot.Current returns an error and the path
\* mapping of the directory is what it was before: no snapshot is recorded
\* for the directory.
C33_StoreFailurePropagates ==
    (/\ last.op = "current" /\ last.before.failed
     /\ fs[last.path].type = "dir") =>
        /\ last.err # ""
        /\ store.paths[last.path] = last.before.paths[last.path]

(***************************************************************************)
(* The update of a path's mapping file, step by step, next to a reader.    *)
(* StoreObject stages an object in a temporary file and renames it, so the *)
(* object appears at once.  StoreSnapshot then writes the mapping file     *)
(* with os.WriteFile, which opens the file itself with O_TRUNC and writes  *)
(* the text of the hash afterwards: between the two the file is empty.     *)
(* last holds the position of the writer.                                  *)
(***************************************************************************)
MaxAtomicSnapshots == 5

\* What the mapping file holds between the O_TRUNC open and the write: no
\* text.  ParseHash yields the nil hash for it, which ReadSnapshot rejects.
TruncatedFile == [function |-> "truncated", sum |-> <<>>]

IdleWriter(h) == [op |-> "idle", path |-> Leaf, f |-> NilFile, h |-> h, old |-> h]

\* The position of the writer, as the record last keeps it
Writer ==
    IF last.op = "storing" THEN last
    ELSE IF last.op \in {"find", "stored"} THEN last.writer
    ELSE IdleWriter(store.paths[Leaf])

\* StoreSnapshot up to the open of the mapping file by os.WriteFile
BeginStoreSnapshot(p) ==
    /\ Writer.op = "idle"
    /\ SnapshotCount(store) < MaxAtomicSnapshots
    /\ \E d \in Data :
         LET old == store.paths[p]
             f == [Mode |-> RegMode(DefaultPerm), Contents |-> NewHash(Bytes(d)),
                   Parents |-> IF old = NilHash THEN <<>> ELSE <<old>>]
             bs == FileString(f)
             st1 == [store EXCEPT !.mappedPaths = @ \cup {q \in AllPaths : IsPrefix(q, p)}]
             so == StoreObject(st1, ByteLen(bs), bs, NoNonce)
         IN  /\ so.err = ""
             /\ so.h # old
             /\ store' = [so.st EXCEPT !.paths[p] = TruncatedFile]
             /\ last' = [op |-> "storing", path |-> p, f |-> f, h |-> so.h, old |-> old]
    /\ UNCHANGED <<fs, umask, graph, seen, returned, bundle, store2>>

\* The rest of StoreSnapshot: the write of the hash into the mapping file
\* and the removal of the mappings of dropped children
FinishStoreSnapshot ==
    /\ Writer.op = "storing"
    /\ LET w == Writer
           r == StoreSnapshot(store, w.path, w.f, NoNonce)
       IN  /\ store' = r.st
           /\ last' = [op |-> "stored", err |-> r.err, h |-> r.h,
                       writer |-> IdleWriter(r.st.paths[w.path])]
    /\ UNCHANGED <<fs, umask, graph, seen, returned, bundle, store2>>

\* A reader of the mapping, in another process
DoFindSnapshot(p) ==
    /\ LET w == Writer
           r == FindSnapshot(store, p)
       IN  last' = [op |-> "find", path |-> p, err |-> r.err, h |-> r.h, writer |-> w]
    /\ UNCHANGED <<fs, umask, store, graph, seen, returned, bundle, store2>>

NextAtomic ==
    \/ BeginStoreSnapshot(Leaf)
    \/ FinishStoreSnapshot
    \/ DoFindSnapshot(Leaf)

SpecAtomic == Init /\ [][NextAtomic]_vars

\* C32: a reader of a path's mapping sees the complete old value or the
\* complete new value of the mapping file (or that there is none yet),
\* never a partially written file, whatever the writer's position.
C32_MappingUpdateAtomic ==
    last.op = "find" =>
        /\ last.err \in {"", "notexist"}
        /\ last.h \in {last.writer.old, last.writer.h}

====
